---- MODULE Spec2Model ----
(***************************************************************************)
(* Route optimisation handler of the E-Waste backend: calculateDistance,   *)
(* findNearestBin and optimizeRoutes of the routes controller, over the    *)
(* bin documents of the collections feature (BinSchema).                   *)
(*                                                                         *)
(* JavaScript values are modelled as records [t, v]:                       *)
(*   [t |-> "number",    v |-> n]   the finite number n                    *)
(*   [t |-> "Infinity",  v |-> s]   s = 1: Infinity, s = -1: -Infinity     *)
(*   [t |-> "NaN",       v |-> 0]   NaN                                    *)
(*   [t |-> "null",      v |-> 0]   null                                   *)
(*   [t |-> "undefined", v |-> 0]   undefined (absent property)            *)
(*   [t |-> "string",    v |-> 0]   a non-numeric string such as "abc"     *)
(*   [t |-> "sqrt",      v |-> r]   the finite number Math.sqrt(r), r >= 0 *)
(*   [t |-> "tiny",      v |-> k]   the finite number k * 2^-600, k # 0    *)
(*   [t |-> "tinysqrt",  v |-> k]   the finite number Math.sqrt(k * 2^-600)*)
(* A "tiny" number is an ordinary double: its product with another tiny   *)
(* number is below the smallest subnormal and rounds to 0, and it is       *)
(* absorbed when added to or subtracted from a non-zero integer.           *)
(* The coordinates of the model are small integers, so every radicand is a *)
(* small integer, exactly representable, and Math.sqrt is strictly         *)
(* increasing on them: comparing two "sqrt" values is comparing their      *)
(* radicands.                                                              *)
(***************************************************************************)
EXTENDS Integers, Sequences, FiniteSets, TLC

VARIABLES pc, areaId, bins, validBins, optimizedRoute, unvisitedBins, res,
          peer,
          configs, categories, nextId, calls

\* the locals and the response of one invocation of optimizeRoutes
routeVars == <<pc, areaId, bins, validBins, optimizedRoute, unvisitedBins, res>>

\* the configuration feature: the SystemConfig collection, the WasteCategory
\* collection, the next category _id, and the invocations of the
\* configuration handlers that are in progress
configVars == <<configs, categories, nextId, calls>>

\* everything else: a second, concurrent invocation of optimizeRoutes, and
\* the configuration feature
aside == <<peer, configVars>>

vars == <<routeVars, aside>>

(* ------------------------------ bounds --------------------------------- *)

\* longest fetched collection of the general specification
MaxBins == 3
\* longest fetched collection of the finite-coordinates specification
MaxFiniteBins == 4
\* finite coordinates are (-MaxLat..MaxLat, 0) and (0, 1..MaxLon)
MaxLat == 1
MaxLon == 1
\* longest fetched collection of the two-invocation specification
MaxPairBins == 3
\* longest fetched collection of the specification with tiny coordinates
MaxTinyBins == 2

\* the number of requests to the configuration document served at a time
MaxCalls == 2

(* --------------------------- JavaScript values ------------------------- *)

Num(n) == [t |-> "number", v |-> n]
Inf(s) == [t |-> "Infinity", v |-> s]
NaN == [t |-> "NaN", v |-> 0]
Null == [t |-> "null", v |-> 0]
Undefined == [t |-> "undefined", v |-> 0]
Str == [t |-> "string", v |-> 0]
Tiny(k) == IF k = 0 THEN Num(0) ELSE [t |-> "tiny", v |-> k]

\* ToNumber of the language: null is 0, undefined and "abc" are NaN
ToNumber(x) ==
    CASE x.t = "null" -> Num(0)
      [] x.t = "undefined" -> NaN
      [] x.t = "string" -> NaN
      [] OTHER -> x

\* the global isNaN(x): Number(x) is NaN
isNaN(x) == ToNumber(x).t = "NaN"

\* a - b
JSSub(a, b) ==
    LET x == ToNumber(a)
        y == ToNumber(b)
    IN  IF x.t = "NaN" \/ y.t = "NaN" THEN NaN
        ELSE IF x.t = "Infinity" /\ y.t = "Infinity"
             THEN (IF x.v = y.v THEN NaN ELSE x)
        ELSE IF x.t = "Infinity" THEN x
        ELSE IF y.t = "Infinity" THEN Inf(0 - y.v)
        ELSE IF x.t = "tiny" /\ y.t = "tiny" THEN Tiny(x.v - y.v)
        ELSE IF x.t = "tiny" THEN (IF y.v = 0 THEN x ELSE Num(0 - y.v))
        ELSE IF y.t = "tiny" THEN (IF x.v = 0 THEN Tiny(0 - y.v) ELSE x)
        ELSE Num(x.v - y.v)

\* a * b
JSMul(a, b) ==
    LET x == ToNumber(a)
        y == ToNumber(b)
        sgn(z) == IF z.v > 0 THEN 1 ELSE IF z.v < 0 THEN -1 ELSE 0
    IN  IF x.t = "NaN" \/ y.t = "NaN" THEN NaN
        ELSE IF x.t = "Infinity" \/ y.t = "Infinity"
             THEN (IF sgn(x) * sgn(y) = 0 THEN NaN ELSE Inf(sgn(x) * sgn(y)))
        ELSE IF x.t = "tiny" /\ y.t = "tiny" THEN Num(0)
        ELSE IF x.t = "tiny" \/ y.t = "tiny" THEN Tiny(x.v * y.v)
        ELSE Num(x.v * y.v)

\* a + b
JSAdd(a, b) ==
    LET x == ToNumber(a)
        y == ToNumber(b)
    IN  IF x.t = "NaN" \/ y.t = "NaN" THEN NaN
        ELSE IF x.t = "Infinity" /\ y.t = "Infinity"
             THEN (IF x.v = y.v THEN x ELSE NaN)
        ELSE IF x.t = "Infinity" THEN x
        ELSE IF y.t = "Infinity" THEN y
        ELSE IF x.t = "tiny" /\ y.t = "tiny" THEN Tiny(x.v + y.v)
        ELSE IF x.t = "tiny" THEN (IF y.v = 0 THEN x ELSE y)
        ELSE IF y.t = "tiny" THEN (IF x.v = 0 THEN y ELSE x)
        ELSE Num(x.v + y.v)

\* Math.sqrt(x)
JSSqrt(x) ==
    IF x.t = "NaN" THEN NaN
    ELSE IF x.t = "Infinity" THEN (IF x.v > 0 THEN x ELSE NaN)
    ELSE IF x.v < 0 THEN NaN
    ELSE IF x.t = "tiny" THEN [t |-> "tinysqrt", v |-> x.v]
    ELSE [t |-> "sqrt", v |-> x.v]

\* a < b on distances (results of Math.sqrt) and Infinity
JSLess(a, b) ==
    IF a.t = "NaN" \/ b.t = "NaN" THEN FALSE
    ELSE IF a.t = "Infinity" THEN (a.v < 0 /\ ~(b.t = "Infinity" /\ b.v < 0))
    ELSE IF b.t = "Infinity" THEN b.v > 0
    ELSE IF a.t = b.t THEN a.v < b.v
    ELSE IF a.t = "tinysqrt" THEN b.v > 0
    ELSE a.v = 0

(* -------------------------------- bins --------------------------------- *)

AreaIds == {"AREA-A", "AREA-B"}

NoArea == "undefined"

\* an invocation slot of the configuration handlers with no request in it
IdleCall ==
    [op |-> "none", cred |-> "none", params |-> <<>>, pc |-> "idle",
     update |-> <<>>, cfg |-> <<>>, category |-> <<>>,
     dirty |-> FALSE, gone |-> FALSE, stale |-> FALSE,
     reply |-> <<>>, notices |-> <<>>]

\* a stored bin document; every attribute but the coordinates and the area
\* is fixed by the position i of the document in the fetched collection
MkBin(i, lat, lon, area) ==
    [binId |-> <<"BIN", i>>,
     location |-> <<"location", i>>,
     category |-> <<"category", i % 2>>,
     latitude |-> lat,
     longitude |-> lon,
     areaId |-> area]

(* ------------------------------ controller ----------------------------- *)

calculateDistance(bin1, bin2) ==
    LET latDiff == JSSub(bin1.latitude, bin2.latitude)
        lonDiff == JSSub(bin1.longitude, bin2.longitude)
    IN  JSSqrt(JSAdd(JSMul(latDiff, latDiff), JSMul(lonDiff, lonDiff)))

\* a scan that compares with <= instead of <: the last of several nearest
\* bins wins
RECURSIVE ScanNearestLast(_, _, _)
ScanNearestLast(currentBin, unvisited, i) ==
    IF i = 0 THEN <<Inf(1), 1>>
    ELSE LET prev == ScanNearestLast(currentBin, unvisited, i - 1)
             distance == calculateDistance(currentBin, unvisited[i])
         IN  IF ~JSLess(prev[1], distance) /\ distance.t # "NaN"
             THEN <<distance, i>> ELSE prev

\* the scan of findNearestBin over unvisitedBins[1..i]: the pair
\* <<minDistance, nearestIndex>> after i iterations (indices are 1-based)
RECURSIVE ScanNearest(_, _, _)
ScanNearest(currentBin, unvisited, i) ==
    IF i = 0 THEN <<Inf(1), 1>>
    ELSE LET prev == ScanNearest(currentBin, unvisited, i - 1)
             distance == calculateDistance(currentBin, unvisited[i])
         IN  IF JSLess(distance, prev[1]) THEN <<distance, i>> ELSE prev

findNearestBin(currentBin, unvisited) ==
    LET nearestIndex == ScanNearest(currentBin, unvisited, Len(unvisited))[2]
    IN  [bin |-> unvisited[nearestIndex], index |-> nearestIndex]

\* the predicate of bins.filter in optimizeRoutes
HasValidCoordinates(bin) ==
    /\ bin.latitude # Undefined
    /\ bin.longitude # Undefined
    /\ ~isNaN(bin.latitude)
    /\ ~isNaN(bin.longitude)

\* Array.prototype.filter with that predicate
FilterValid(bs) == SelectSeq(bs, HasValidCoordinates)

\* a splice that always removes the first element
SpliceFirst(s, index) == [j \in 1..(Len(s) - 1) |-> s[j + 1]]

\* a splice that removes two elements
SpliceTwo(s, index) ==
    IF Len(s) < 2 THEN <<>>
    ELSE [j \in 1..(Len(s) - 2) |-> IF j < index THEN s[j] ELSE s[j + 2]]

\* Array.prototype.splice(index, 1) (1-based index)
Splice(s, index) == [j \in 1..(Len(s) - 1) |-> IF j < index THEN s[j] ELSE s[j + 1]]

\* a formatter that numbers the stops from 0
FormatRouteZeroBased(route) ==
    [k \in 1..Len(route) |->
        [order |-> k - 1,
         binId |-> route[k].binId,
         location |-> route[k].location,
         category |-> route[k].category,
         latitude |-> route[k].latitude,
         longitude |-> route[k].longitude,
         areaId |-> route[k].areaId]]

\* a formatter that exchanges latitude and longitude
FormatRouteSwapped(route) ==
    [k \in 1..Len(route) |->
        [order |-> k,
         binId |-> route[k].binId,
         location |-> route[k].location,
         category |-> route[k].category,
         latitude |-> route[k].longitude,
         longitude |-> route[k].latitude,
         areaId |-> route[k].areaId]]

\* optimizedRoute.map((bin, index) => ({ order: index + 1, ... }))
FormatRoute(route) ==
    [k \in 1..Len(route) |->
        [order |-> k,
         binId |-> route[k].binId,
         location |-> route[k].location,
         category |-> route[k].category,
         latitude |-> route[k].latitude,
         longitude |-> route[k].longitude,
         areaId |-> route[k].areaId]]

\* a start at the last bin instead of the first
FirstStopLast(unvisited) == unvisited[Len(unvisited)]

\* a start taken from the list of another invocation
FirstStopShared(unvisited) ==
    IF Len(peer.bins) > 0 THEN peer.bins[1] ELSE unvisited[1]

\* the start of the route: optimizedRoute.push(unvisitedBins[0])
FirstStop(unvisited) == unvisited[1]

\* an echo without the 'all' default
EchoAreaRaw(a) == a

\* the echo of the filter in the response: areaId || 'all'
EchoArea(a) == IF a = NoArea THEN "all" ELSE a

Init ==
    /\ pc = "idle"
    /\ areaId = NoArea
    /\ bins = <<>>
    /\ validBins = <<>>
    /\ optimizedRoute = <<>>
    /\ unvisitedBins = <<>>
    /\ res = <<>>
    /\ peer = [pc |-> "idle", areaId |-> NoArea, bins |-> <<>>, res |-> <<>>]
    /\ configs = <<>>
    /\ categories = <<>>
    /\ nextId = 1
    /\ calls = [c \in 1..MaxCalls |-> IdleCall]

(* the request: no body at all, or a body whose areaId is absent or a name *)
NoBody == "no body"

Bodies == {body : body \in {NoBody, NoArea} \cup AreaIds}

\* the catch block of optimizeRoutes
ErrorResponse ==
    [status |-> 500, body |-> [message |-> "Error optimizing routes", error |-> "error.message"]]

\* coordinate pairs of the fetched documents: finite points on the two
\* axes, and documents with one coordinate absent, null, NaN, infinite or a
\* non-numeric string
FiniteCoords ==
    {c : c \in {<<Num(la), Num(0)>> : la \in (0 - MaxLat)..MaxLat}
                   \cup {<<Num(0), Num(lo)>> : lo \in 1..MaxLon}}

OddCoords ==
    {c : c \in {<<x, Num(0)>> : x \in {Undefined, Null, NaN, Inf(1), Str}}
                   \cup {<<Num(0), x>> : x \in {Undefined, Null, NaN, Inf(1), Str}}}

\* the area of the i-th document Bin.find(query) returns: the area of the
\* query, and alternating areas when the query has no filter
QueryArea(a, i) ==
    IF a # NoArea THEN a ELSE IF i % 2 = 1 THEN "AREA-A" ELSE "AREA-B"

\* a result of Bin.find(query).lean(): n documents with the coordinates cs,
\* in the order the store returns them
FindResult(a, n, cs) == [i \in 1..n |-> MkBin(i, cs[i][1], cs[i][2], QueryArea(a, i))]

\* entry of optimizeRoutes up to the await: `const { areaId } = req.body`
\* throws without a body and the catch block answers 500
Receive(body) ==
    /\ pc \in {"idle", "done"}
    /\ bins' = <<>>
    /\ validBins' = <<>>
    /\ optimizedRoute' = <<>>
    /\ unvisitedBins' = <<>>
    /\ IF body = NoBody
       THEN /\ areaId' = NoArea
            /\ res' = <<ErrorResponse>>
            /\ pc' = "done"
       ELSE /\ areaId' = body
            /\ res' = <<>>
            /\ pc' = "await"
    /\ UNCHANGED aside

\* the awaited Bin.find(query).lean() resolves with the documents bs
FetchResolve(bs) ==
    /\ pc = "await"
    /\ bins' = bs
    /\ pc' = "fetched"
    /\ UNCHANGED <<areaId, validBins, optimizedRoute, unvisitedBins, res>>
    /\ UNCHANGED aside

\* a rejection of the fetch that ends the handler without a response
FetchRejectSilent ==
    /\ pc = "await"
    /\ res' = <<>>
    /\ pc' = "done"
    /\ UNCHANGED <<areaId, bins, validBins, optimizedRoute, unvisitedBins>>
    /\ UNCHANGED aside

\* the awaited Bin.find(query).lean() rejects
FetchReject ==
    /\ pc = "await"
    /\ res' = <<ErrorResponse>>
    /\ pc' = "done"
    /\ UNCHANGED <<areaId, bins, validBins, optimizedRoute, unvisitedBins>>
    /\ UNCHANGED aside

\* the two empty checks, the coordinate filter and the start of the route
FilterAndStart ==
    /\ pc = "fetched"
    /\ IF Len(bins) = 0
       THEN /\ res' = <<[status |-> 200,
                         body |-> [optimizedRoute |-> <<>>,
                                   message |-> "No bins found for the specified area"]]>>
            /\ pc' = "done"
            /\ UNCHANGED <<validBins, optimizedRoute, unvisitedBins>>
       ELSE /\ validBins' = FilterValid(bins)
            /\ IF Len(validBins') = 0
               THEN /\ res' = <<[status |-> 200,
                                 body |-> [optimizedRoute |-> <<>>,
                                           message |-> "No bins with valid coordinates found"]]>>
                    /\ pc' = "done"
                    /\ UNCHANGED <<optimizedRoute, unvisitedBins>>
               ELSE /\ optimizedRoute' = <<FirstStop(validBins')>>
                    /\ unvisitedBins' = Splice(validBins', 1)
                    /\ pc' = "loop"
                    /\ UNCHANGED res
    /\ UNCHANGED <<areaId, bins>>
    /\ UNCHANGED aside

\* an iteration that takes any of several nearest bins, as a scan of an
\* unordered collection would
SelectNearestUnordered ==
    /\ pc = "loop"
    /\ Len(unvisitedBins) > 0
    /\ LET currentBin == optimizedRoute[Len(optimizedRoute)]
           nearest == findNearestBin(currentBin, unvisitedBins)
       IN  \E i \in 1..Len(unvisitedBins) :
               /\ calculateDistance(currentBin, unvisitedBins[i])
                      = calculateDistance(currentBin, nearest.bin)
               /\ optimizedRoute' = Append(optimizedRoute, unvisitedBins[i])
               /\ unvisitedBins' = Splice(unvisitedBins, i)
    /\ UNCHANGED <<pc, areaId, bins, validBins, res>>
    /\ UNCHANGED aside

\* an iteration on a list that is the filtered input itself, not a copy
SelectNearestAliased ==
    /\ pc = "loop"
    /\ Len(unvisitedBins) > 0
    /\ LET currentBin == optimizedRoute[Len(optimizedRoute)]
           nearest == findNearestBin(currentBin, unvisitedBins)
       IN  /\ optimizedRoute' = Append(optimizedRoute, nearest.bin)
           /\ unvisitedBins' = Splice(unvisitedBins, nearest.index)
           /\ validBins' = unvisitedBins'
    /\ UNCHANGED <<pc, areaId, bins, res>>
    /\ UNCHANGED aside

\* one iteration of the while loop
SelectNearest ==
    /\ pc = "loop"
    /\ Len(unvisitedBins) > 0
    /\ LET currentBin == optimizedRoute[Len(optimizedRoute)]
           nearest == findNearestBin(currentBin, unvisitedBins)
       IN  /\ optimizedRoute' = Append(optimizedRoute, nearest.bin)
           /\ unvisitedBins' = Splice(unvisitedBins, nearest.index)
    /\ UNCHANGED <<pc, areaId, bins, validBins, res>>
    /\ UNCHANGED aside

\* the loop has ended: format the route and send the response
FormatAndRespond ==
    /\ pc = "loop"
    /\ Len(unvisitedBins) = 0
    /\ LET formattedRoute == FormatRoute(optimizedRoute)
       IN  res' = <<[status |-> 200,
                    body |-> [optimizedRoute |-> formattedRoute,
                              totalBins |-> Len(formattedRoute),
                              areaId |-> EchoArea(areaId)]]>>
    /\ pc' = "done"
    /\ UNCHANGED <<areaId, bins, validBins, optimizedRoute, unvisitedBins>>
    /\ UNCHANGED aside

ReceiveAny == \E body \in Bodies : Receive(body)

\* the fetch resolves with up to maxLen documents whose areaId matches the
\* query and whose coordinates are drawn from coords
FetchFrom(coords, maxLen) ==
    /\ pc = "await"
    /\ \E n \in 0..maxLen :
         \E cs \in [1..n -> coords] :
             FetchResolve(FindResult(areaId, n, cs))

\* every coordinate pair a fetched document can carry, as one enumerated set
AnyCoords == {c : c \in FiniteCoords \cup OddCoords}

FetchAny == FetchFrom(AnyCoords, MaxBins)

\* the same handler on finite coordinates only, with longer collections
FetchFinite == FetchFrom(FiniteCoords, MaxFiniteBins)

(* --------------------- a second, concurrent invocation ----------------- *)

\* the while loop of optimizeRoutes run to its end
RECURSIVE BuildTour(_, _)
BuildTour(route, unvisited) ==
    IF Len(unvisited) = 0 THEN route
    ELSE LET nearest == findNearestBin(route[Len(route)], unvisited)
         IN  BuildTour(Append(route, nearest.bin), Splice(unvisited, nearest.index))

\* the synchronous part of optimizeRoutes after the await, run to its end:
\* the response to a request with the filter a when the fetch resolved
\* with bs
Respond(a, bs) ==
    IF Len(bs) = 0
    THEN [status |-> 200,
          body |-> [optimizedRoute |-> <<>>,
                    message |-> "No bins found for the specified area"]]
    ELSE LET valid == FilterValid(bs)
         IN  IF Len(valid) = 0
             THEN [status |-> 200,
                   body |-> [optimizedRoute |-> <<>>,
                             message |-> "No bins with valid coordinates found"]]
             ELSE LET formattedRoute ==
                          FormatRoute(BuildTour(<<FirstStop(valid)>>, Splice(valid, 1)))
                  IN  [status |-> 200,
                       body |-> [optimizedRoute |-> formattedRoute,
                                 totalBins |-> Len(formattedRoute),
                                 areaId |-> EchoArea(a)]]

\* the second invocation up to its await
PeerReceive(body) ==
    /\ peer.pc \in {"idle", "done"}
    /\ peer' = IF body = NoBody
               THEN [pc |-> "done", areaId |-> NoArea, bins |-> <<>>, res |-> <<ErrorResponse>>]
               ELSE [pc |-> "await", areaId |-> body, bins |-> <<>>, res |-> <<>>]
    /\ UNCHANGED routeVars
    /\ UNCHANGED configVars

\* the fetch of the second invocation resolves with bs; what follows has no
\* await and runs to the response without interruption
PeerFetchResolve(bs) ==
    /\ peer.pc = "await"
    /\ peer' = [peer EXCEPT !.pc = "done", !.bins = bs, !.res = <<Respond(peer.areaId, bs)>>]
    /\ UNCHANGED routeVars
    /\ UNCHANGED configVars

\* the fetch of the second invocation rejects
PeerFetchReject ==
    /\ peer.pc = "await"
    /\ peer' = [peer EXCEPT !.pc = "done", !.res = <<ErrorResponse>>]
    /\ UNCHANGED routeVars
    /\ UNCHANGED configVars

PeerReceiveAny == \E body \in Bodies : PeerReceive(body)

\* the coordinates of the two-invocation specification
PairCoords == {<<Num(0), Num(0)>>, <<Num(1), Num(0)>>, <<Num(0), Num(1)>>}

FetchPair == FetchFrom(PairCoords, MaxPairBins)

PeerFetchPair ==
    /\ peer.pc = "await"
    /\ \E n \in 0..MaxPairBins :
         \E cs \in [1..n -> PairCoords] :
             PeerFetchResolve(FindResult(peer.areaId, n, cs))

\* finite coordinates that differ from 0 by a tiny amount
TinyCoords == {<<Tiny(1), Num(0)>>, <<Num(0), Tiny(1)>>, <<Tiny(-1), Num(0)>>}

FiniteOrTinyCoords == {c : c \in FiniteCoords \cup TinyCoords}

FetchTiny == FetchFrom(FiniteOrTinyCoords, MaxTinyBins)

Next ==
    \/ ReceiveAny
    \/ FetchAny
    \/ FetchReject
    \/ FilterAndStart
    \/ SelectNearest
    \/ FormatAndRespond

Spec == Init /\ [][Next]_vars

NextFinite ==
    \/ ReceiveAny
    \/ FetchFinite
    \/ FetchReject
    \/ FilterAndStart
    \/ SelectNearest
    \/ FormatAndRespond

SpecFinite == Init /\ [][NextFinite]_vars

\* two invocations of the handler, interleaved at their awaits
NextPair ==
    \/ ReceiveAny
    \/ FetchPair
    \/ FetchReject
    \/ FilterAndStart
    \/ SelectNearest
    \/ FormatAndRespond
    \/ PeerReceiveAny
    \/ PeerFetchPair
    \/ PeerFetchReject

SpecPair == Init /\ [][NextPair]_vars

\* the handler on finite coordinates, tiny ones included
NextTiny ==
    \/ ReceiveAny
    \/ FetchTiny
    \/ FetchReject
    \/ FilterAndStart
    \/ SelectNearest
    \/ FormatAndRespond

SpecTiny == Init /\ [][NextTiny]_vars

\* the synchronous part of the handler is not suspended: once the fetch has
\* resolved, every step of it is taken
\* an iteration of the loop is possible: the condition of the while
LoopCondition == pc = "loop" /\ Len(unvisitedBins) > 0

\* weak fairness of SelectNearest, WF_vars(SelectNearest), with its enabling
\* condition written out: an iteration always lengthens optimizedRoute, so
\* ENABLED <<SelectNearest>>_vars is LoopCondition
FairSelectNearest == <>[]~LoopCondition \/ []<><<SelectNearest>>_vars

SpecFiniteFair ==
    /\ SpecFinite
    /\ WF_vars(FilterAndStart)
    /\ FairSelectNearest
    /\ WF_vars(FormatAndRespond)

(* --------------------------- configuration: values --------------------- *)

\* the longest billingModels array of a request
MaxModels == 2

\* the longest wasteCategories array of a request
MaxCategories == 2

\* the number of WasteCategory documents ever created
MaxIds == 2

\* a string with its UTF-16 code units: "Flat" is Text(<<70, 108, 97, 116>>)
Text(chars) == [t |-> "string", v |-> chars]

\* an array and an object of a request body
Arr(elems) == [t |-> "array", v |-> elems]

Obj(fields) == [t |-> "object", v |-> fields]

Bool(b) == [t |-> "boolean", v |-> b]

\* the truth value of x in a condition: undefined, null, NaN, 0, "" and
\* false are falsy
Truthy(x) ==
    CASE x.t \in {"undefined", "null", "NaN"} -> FALSE
      [] x.t = "number" -> x.v # 0
      [] x.t = "string" -> x.v # <<>>
      [] x.t = "boolean" -> x.v
      [] OTHER -> TRUE

\* typeof x
typeof(x) ==
    CASE x.t = "undefined" -> "undefined"
      [] x.t \in {"number", "NaN", "Infinity"} -> "number"
      [] x.t = "string" -> "string"
      [] x.t = "boolean" -> "boolean"
      [] OTHER -> "object"

\* x[f] of a request value: undefined when x has no such property
Field(x, f) ==
    IF x.t = "object" /\ f \in DOMAIN x.v THEN x.v[f] ELSE Undefined

\* the white space and the line terminators that String.prototype.trim
\* strips: tab, line feed, vertical tab, form feed, carriage return, space,
\* no-break space, U+1680, U+2000 to U+200A, the line and the paragraph
\* separator, U+202F, U+205F, U+3000 and the byte order mark U+FEFF
WhiteSpace ==
    {u : u \in {9, 10, 11, 12, 13, 32, 160, 5760} \cup (8192..8202)
                  \cup {8232, 8233, 8239, 8287, 12288, 65279}}

\* String.prototype.trim: the string from its first to its last code unit
\* that is not white space
trim(x) ==
    LET kept == {i \in 1..Len(x.v) : x.v[i] \notin WhiteSpace}
    IN  IF kept = {} THEN Text(<<>>)
        ELSE Text(SubSeq(x.v,
                         CHOOSE i \in kept : \A j \in kept : i <= j,
                         CHOOSE i \in kept : \A j \in kept : j <= i))

\* the simple lower case mappings of the Unicode Character Database (17.0)
\* beyond U+007F, as <<first, last, step, offset>>: every step-th code point
\* from first to last has the lower case code point + offset
LowercaseMapping ==
    <<
      <<192, 214, 1, 32>>, <<216, 222, 1, 32>>, <<256, 302, 2, 1>>, <<306, 310, 2, 1>>, <<313, 327, 2, 1>>,
      <<330, 374, 2, 1>>, <<376, 376, 1, -121>>, <<377, 381, 2, 1>>, <<385, 385, 1, 210>>, <<386, 388, 2, 1>>,
      <<390, 390, 1, 206>>, <<391, 391, 1, 1>>, <<393, 394, 1, 205>>, <<395, 395, 1, 1>>, <<398, 398, 1, 79>>,
      <<399, 399, 1, 202>>, <<400, 400, 1, 203>>, <<401, 401, 1, 1>>, <<403, 403, 1, 205>>, <<404, 404, 1, 207>>,
      <<406, 406, 1, 211>>, <<407, 407, 1, 209>>, <<408, 408, 1, 1>>, <<412, 412, 1, 211>>, <<413, 413, 1, 213>>,
      <<415, 415, 1, 214>>, <<416, 420, 2, 1>>, <<422, 422, 1, 218>>, <<423, 423, 1, 1>>, <<425, 425, 1, 218>>,
      <<428, 428, 1, 1>>, <<430, 430, 1, 218>>, <<431, 431, 1, 1>>, <<433, 434, 1, 217>>, <<435, 437, 2, 1>>,
      <<439, 439, 1, 219>>, <<440, 440, 1, 1>>, <<444, 444, 1, 1>>, <<452, 452, 1, 2>>, <<453, 453, 1, 1>>,
      <<455, 455, 1, 2>>, <<456, 456, 1, 1>>, <<458, 458, 1, 2>>, <<459, 475, 2, 1>>, <<478, 494, 2, 1>>,
      <<497, 497, 1, 2>>, <<498, 500, 2, 1>>, <<502, 502, 1, -97>>, <<503, 503, 1, -56>>, <<504, 542, 2, 1>>,
      <<544, 544, 1, -130>>, <<546, 562, 2, 1>>, <<570, 570, 1, 10795>>, <<571, 571, 1, 1>>, <<573, 573, 1, -163>>,
      <<574, 574, 1, 10792>>, <<577, 577, 1, 1>>, <<579, 579, 1, -195>>, <<580, 580, 1, 69>>, <<581, 581, 1, 71>>,
      <<582, 590, 2, 1>>, <<880, 882, 2, 1>>, <<886, 886, 1, 1>>, <<895, 895, 1, 116>>, <<902, 902, 1, 38>>,
      <<904, 906, 1, 37>>, <<908, 908, 1, 64>>, <<910, 911, 1, 63>>, <<913, 929, 1, 32>>, <<931, 939, 1, 32>>,
      <<975, 975, 1, 8>>, <<984, 1006, 2, 1>>, <<1012, 1012, 1, -60>>, <<1015, 1015, 1, 1>>, <<1017, 1017, 1, -7>>,
      <<1018, 1018, 1, 1>>, <<1021, 1023, 1, -130>>, <<1024, 1039, 1, 80>>, <<1040, 1071, 1, 32>>, <<1120, 1152, 2, 1>>,
      <<1162, 1214, 2, 1>>, <<1216, 1216, 1, 15>>, <<1217, 1229, 2, 1>>, <<1232, 1326, 2, 1>>, <<1329, 1366, 1, 48>>,
      <<4256, 4293, 1, 7264>>, <<4295, 4295, 1, 7264>>, <<4301, 4301, 1, 7264>>, <<5024, 5103, 1, 38864>>, <<5104, 5109, 1, 8>>,
      <<7305, 7305, 1, 1>>, <<7312, 7354, 1, -3008>>, <<7357, 7359, 1, -3008>>, <<7680, 7828, 2, 1>>, <<7838, 7838, 1, -7615>>,
      <<7840, 7934, 2, 1>>, <<7944, 7951, 1, -8>>, <<7960, 7965, 1, -8>>, <<7976, 7983, 1, -8>>, <<7992, 7999, 1, -8>>,
      <<8008, 8013, 1, -8>>, <<8025, 8031, 2, -8>>, <<8040, 8047, 1, -8>>, <<8072, 8079, 1, -8>>, <<8088, 8095, 1, -8>>,
      <<8104, 8111, 1, -8>>, <<8120, 8121, 1, -8>>, <<8122, 8123, 1, -74>>, <<8124, 8124, 1, -9>>, <<8136, 8139, 1, -86>>,
      <<8140, 8140, 1, -9>>, <<8152, 8153, 1, -8>>, <<8154, 8155, 1, -100>>, <<8168, 8169, 1, -8>>, <<8170, 8171, 1, -112>>,
      <<8172, 8172, 1, -7>>, <<8184, 8185, 1, -128>>, <<8186, 8187, 1, -126>>, <<8188, 8188, 1, -9>>, <<8486, 8486, 1, -7517>>,
      <<8490, 8490, 1, -8383>>, <<8491, 8491, 1, -8262>>, <<8498, 8498, 1, 28>>, <<8544, 8559, 1, 16>>, <<8579, 8579, 1, 1>>,
      <<9398, 9423, 1, 26>>, <<11264, 11311, 1, 48>>, <<11360, 11360, 1, 1>>, <<11362, 11362, 1, -10743>>, <<11363, 11363, 1, -3814>>,
      <<11364, 11364, 1, -10727>>, <<11367, 11371, 2, 1>>, <<11373, 11373, 1, -10780>>, <<11374, 11374, 1, -10749>>, <<11375, 11375, 1, -10783>>,
      <<11376, 11376, 1, -10782>>, <<11378, 11378, 1, 1>>, <<11381, 11381, 1, 1>>, <<11390, 11391, 1, -10815>>, <<11392, 11490, 2, 1>>,
      <<11499, 11501, 2, 1>>, <<11506, 11506, 1, 1>>, <<42560, 42604, 2, 1>>, <<42624, 42650, 2, 1>>, <<42786, 42798, 2, 1>>,
      <<42802, 42862, 2, 1>>, <<42873, 42875, 2, 1>>, <<42877, 42877, 1, -35332>>, <<42878, 42886, 2, 1>>, <<42891, 42891, 1, 1>>,
      <<42893, 42893, 1, -42280>>, <<42896, 42898, 2, 1>>, <<42902, 42920, 2, 1>>, <<42922, 42922, 1, -42308>>, <<42923, 42923, 1, -42319>>,
      <<42924, 42924, 1, -42315>>, <<42925, 42925, 1, -42305>>, <<42926, 42926, 1, -42308>>, <<42928, 42928, 1, -42258>>, <<42929, 42929, 1, -42282>>,
      <<42930, 42930, 1, -42261>>, <<42931, 42931, 1, 928>>, <<42932, 42946, 2, 1>>, <<42948, 42948, 1, -48>>, <<42949, 42949, 1, -42307>>,
      <<42950, 42950, 1, -35384>>, <<42951, 42953, 2, 1>>, <<42955, 42955, 1, -42343>>, <<42956, 42970, 2, 1>>, <<42972, 42972, 1, -42561>>,
      <<42997, 42997, 1, 1>>, <<65313, 65338, 1, 32>>, <<66560, 66599, 1, 40>>, <<66736, 66771, 1, 40>>, <<66928, 66938, 1, 39>>,
      <<66940, 66954, 1, 39>>, <<66956, 66962, 1, 39>>, <<66964, 66965, 1, 39>>, <<68736, 68786, 1, 64>>, <<68944, 68965, 1, 32>>,
      <<71840, 71871, 1, 32>>, <<93760, 93791, 1, 32>>, <<93856, 93880, 1, 27>>, <<125184, 125217, 1, 34>>
    >>

\* the code points with the property Cased that are not Case_Ignorable
\* (Unicode 17.0), as <<first, last>>
Cased ==
    <<
      <<65, 90>>, <<97, 122>>, <<170, 170>>, <<181, 181>>, <<186, 186>>, <<192, 214>>, <<216, 246>>,
      <<248, 442>>, <<444, 447>>, <<452, 659>>, <<662, 687>>, <<880, 883>>, <<886, 887>>, <<891, 893>>,
      <<895, 895>>, <<902, 902>>, <<904, 906>>, <<908, 908>>, <<910, 929>>, <<931, 1013>>, <<1015, 1153>>,
      <<1162, 1327>>, <<1329, 1366>>, <<1376, 1416>>, <<4256, 4293>>, <<4295, 4295>>, <<4301, 4301>>, <<4304, 4346>>,
      <<4349, 4351>>, <<5024, 5109>>, <<5112, 5117>>, <<7296, 7306>>, <<7312, 7354>>, <<7357, 7359>>, <<7424, 7467>>,
      <<7531, 7543>>, <<7545, 7578>>, <<7680, 7957>>, <<7960, 7965>>, <<7968, 8005>>, <<8008, 8013>>, <<8016, 8023>>,
      <<8025, 8025>>, <<8027, 8027>>, <<8029, 8029>>, <<8031, 8061>>, <<8064, 8116>>, <<8118, 8124>>, <<8126, 8126>>,
      <<8130, 8132>>, <<8134, 8140>>, <<8144, 8147>>, <<8150, 8155>>, <<8160, 8172>>, <<8178, 8180>>, <<8182, 8188>>,
      <<8450, 8450>>, <<8455, 8455>>, <<8458, 8467>>, <<8469, 8469>>, <<8473, 8477>>, <<8484, 8484>>, <<8486, 8486>>,
      <<8488, 8488>>, <<8490, 8493>>, <<8495, 8500>>, <<8505, 8505>>, <<8508, 8511>>, <<8517, 8521>>, <<8526, 8526>>,
      <<8544, 8575>>, <<8579, 8580>>, <<9398, 9449>>, <<11264, 11387>>, <<11390, 11492>>, <<11499, 11502>>, <<11506, 11507>>,
      <<11520, 11557>>, <<11559, 11559>>, <<11565, 11565>>, <<42560, 42605>>, <<42624, 42651>>, <<42786, 42863>>, <<42865, 42887>>,
      <<42891, 42894>>, <<42896, 42972>>, <<42997, 42998>>, <<43002, 43002>>, <<43824, 43866>>, <<43872, 43880>>, <<43888, 43967>>,
      <<64256, 64262>>, <<64275, 64279>>, <<65313, 65338>>, <<65345, 65370>>, <<66560, 66639>>, <<66736, 66771>>, <<66776, 66811>>,
      <<66928, 66938>>, <<66940, 66954>>, <<66956, 66962>>, <<66964, 66965>>, <<66967, 66977>>, <<66979, 66993>>, <<66995, 67001>>,
      <<67003, 67004>>, <<68736, 68786>>, <<68800, 68850>>, <<68944, 68965>>, <<68976, 68997>>, <<71840, 71903>>, <<93760, 93823>>,
      <<93856, 93880>>, <<93883, 93907>>, <<119808, 119892>>, <<119894, 119964>>, <<119966, 119967>>, <<119970, 119970>>, <<119973, 119974>>,
      <<119977, 119980>>, <<119982, 119993>>, <<119995, 119995>>, <<119997, 120003>>, <<120005, 120069>>, <<120071, 120074>>, <<120077, 120084>>,
      <<120086, 120092>>, <<120094, 120121>>, <<120123, 120126>>, <<120128, 120132>>, <<120134, 120134>>, <<120138, 120144>>, <<120146, 120485>>,
      <<120488, 120512>>, <<120514, 120538>>, <<120540, 120570>>, <<120572, 120596>>, <<120598, 120628>>, <<120630, 120654>>, <<120656, 120686>>,
      <<120688, 120712>>, <<120714, 120744>>, <<120746, 120770>>, <<120772, 120779>>, <<122624, 122633>>, <<122635, 122654>>, <<122661, 122666>>,
      <<125184, 125251>>, <<127280, 127305>>, <<127312, 127337>>, <<127344, 127369>>
    >>

\* the code points with the property Case_Ignorable (Unicode 17.0), as
\* <<first, last>>
CaseIgnorable ==
    <<
      <<39, 39>>, <<46, 46>>, <<58, 58>>, <<94, 94>>, <<96, 96>>, <<168, 168>>, <<173, 173>>,
      <<175, 175>>, <<180, 180>>, <<183, 184>>, <<688, 879>>, <<884, 885>>, <<890, 890>>, <<900, 901>>,
      <<903, 903>>, <<1155, 1161>>, <<1369, 1369>>, <<1375, 1375>>, <<1425, 1469>>, <<1471, 1471>>, <<1473, 1474>>,
      <<1476, 1477>>, <<1479, 1479>>, <<1524, 1524>>, <<1536, 1541>>, <<1552, 1562>>, <<1564, 1564>>, <<1600, 1600>>,
      <<1611, 1631>>, <<1648, 1648>>, <<1750, 1757>>, <<1759, 1768>>, <<1770, 1773>>, <<1807, 1807>>, <<1809, 1809>>,
      <<1840, 1866>>, <<1958, 1968>>, <<2027, 2037>>, <<2042, 2042>>, <<2045, 2045>>, <<2070, 2093>>, <<2137, 2139>>,
      <<2184, 2184>>, <<2192, 2193>>, <<2199, 2207>>, <<2249, 2306>>, <<2362, 2362>>, <<2364, 2364>>, <<2369, 2376>>,
      <<2381, 2381>>, <<2385, 2391>>, <<2402, 2403>>, <<2417, 2417>>, <<2433, 2433>>, <<2492, 2492>>, <<2497, 2500>>,
      <<2509, 2509>>, <<2530, 2531>>, <<2558, 2558>>, <<2561, 2562>>, <<2620, 2620>>, <<2625, 2626>>, <<2631, 2632>>,
      <<2635, 2637>>, <<2641, 2641>>, <<2672, 2673>>, <<2677, 2677>>, <<2689, 2690>>, <<2748, 2748>>, <<2753, 2757>>,
      <<2759, 2760>>, <<2765, 2765>>, <<2786, 2787>>, <<2810, 2815>>, <<2817, 2817>>, <<2876, 2876>>, <<2879, 2879>>,
      <<2881, 2884>>, <<2893, 2893>>, <<2901, 2902>>, <<2914, 2915>>, <<2946, 2946>>, <<3008, 3008>>, <<3021, 3021>>,
      <<3072, 3072>>, <<3076, 3076>>, <<3132, 3132>>, <<3134, 3136>>, <<3142, 3144>>, <<3146, 3149>>, <<3157, 3158>>,
      <<3170, 3171>>, <<3201, 3201>>, <<3260, 3260>>, <<3263, 3263>>, <<3270, 3270>>, <<3276, 3277>>, <<3298, 3299>>,
      <<3328, 3329>>, <<3387, 3388>>, <<3393, 3396>>, <<3405, 3405>>, <<3426, 3427>>, <<3457, 3457>>, <<3530, 3530>>,
      <<3538, 3540>>, <<3542, 3542>>, <<3633, 3633>>, <<3636, 3642>>, <<3654, 3662>>, <<3761, 3761>>, <<3764, 3772>>,
      <<3782, 3782>>, <<3784, 3790>>, <<3864, 3865>>, <<3893, 3893>>, <<3895, 3895>>, <<3897, 3897>>, <<3953, 3966>>,
      <<3968, 3972>>, <<3974, 3975>>, <<3981, 3991>>, <<3993, 4028>>, <<4038, 4038>>, <<4141, 4144>>, <<4146, 4151>>,
      <<4153, 4154>>, <<4157, 4158>>, <<4184, 4185>>, <<4190, 4192>>, <<4209, 4212>>, <<4226, 4226>>, <<4229, 4230>>,
      <<4237, 4237>>, <<4253, 4253>>, <<4348, 4348>>, <<4957, 4959>>, <<5906, 5908>>, <<5938, 5939>>, <<5970, 5971>>,
      <<6002, 6003>>, <<6068, 6069>>, <<6071, 6077>>, <<6086, 6086>>, <<6089, 6099>>, <<6103, 6103>>, <<6109, 6109>>,
      <<6155, 6159>>, <<6211, 6211>>, <<6277, 6278>>, <<6313, 6313>>, <<6432, 6434>>, <<6439, 6440>>, <<6450, 6450>>,
      <<6457, 6459>>, <<6679, 6680>>, <<6683, 6683>>, <<6742, 6742>>, <<6744, 6750>>, <<6752, 6752>>, <<6754, 6754>>,
      <<6757, 6764>>, <<6771, 6780>>, <<6783, 6783>>, <<6823, 6823>>, <<6832, 6877>>, <<6880, 6891>>, <<6912, 6915>>,
      <<6964, 6964>>, <<6966, 6970>>, <<6972, 6972>>, <<6978, 6978>>, <<7019, 7027>>, <<7040, 7041>>, <<7074, 7077>>,
      <<7080, 7081>>, <<7083, 7085>>, <<7142, 7142>>, <<7144, 7145>>, <<7149, 7149>>, <<7151, 7153>>, <<7212, 7219>>,
      <<7222, 7223>>, <<7288, 7293>>, <<7376, 7378>>, <<7380, 7392>>, <<7394, 7400>>, <<7405, 7405>>, <<7412, 7412>>,
      <<7416, 7417>>, <<7468, 7530>>, <<7544, 7544>>, <<7579, 7679>>, <<8125, 8125>>, <<8127, 8129>>, <<8141, 8143>>,
      <<8157, 8159>>, <<8173, 8175>>, <<8189, 8190>>, <<8203, 8207>>, <<8216, 8217>>, <<8228, 8228>>, <<8231, 8231>>,
      <<8234, 8238>>, <<8288, 8292>>, <<8294, 8303>>, <<8305, 8305>>, <<8319, 8319>>, <<8336, 8348>>, <<8400, 8432>>,
      <<11388, 11389>>, <<11503, 11505>>, <<11631, 11631>>, <<11647, 11647>>, <<11744, 11775>>, <<11823, 11823>>, <<12293, 12293>>,
      <<12330, 12333>>, <<12337, 12341>>, <<12347, 12347>>, <<12441, 12446>>, <<12540, 12542>>, <<40981, 40981>>, <<42232, 42237>>,
      <<42508, 42508>>, <<42607, 42610>>, <<42612, 42621>>, <<42623, 42623>>, <<42652, 42655>>, <<42736, 42737>>, <<42752, 42785>>,
      <<42864, 42864>>, <<42888, 42890>>, <<42993, 42996>>, <<43000, 43001>>, <<43010, 43010>>, <<43014, 43014>>, <<43019, 43019>>,
      <<43045, 43046>>, <<43052, 43052>>, <<43204, 43205>>, <<43232, 43249>>, <<43263, 43263>>, <<43302, 43309>>, <<43335, 43345>>,
      <<43392, 43394>>, <<43443, 43443>>, <<43446, 43449>>, <<43452, 43453>>, <<43471, 43471>>, <<43493, 43494>>, <<43561, 43566>>,
      <<43569, 43570>>, <<43573, 43574>>, <<43587, 43587>>, <<43596, 43596>>, <<43632, 43632>>, <<43644, 43644>>, <<43696, 43696>>,
      <<43698, 43700>>, <<43703, 43704>>, <<43710, 43711>>, <<43713, 43713>>, <<43741, 43741>>, <<43756, 43757>>, <<43763, 43764>>,
      <<43766, 43766>>, <<43867, 43871>>, <<43881, 43883>>, <<44005, 44005>>, <<44008, 44008>>, <<44013, 44013>>, <<64286, 64286>>,
      <<64434, 64450>>, <<65024, 65039>>, <<65043, 65043>>, <<65056, 65071>>, <<65106, 65106>>, <<65109, 65109>>, <<65279, 65279>>,
      <<65287, 65287>>, <<65294, 65294>>, <<65306, 65306>>, <<65342, 65342>>, <<65344, 65344>>, <<65392, 65392>>, <<65438, 65439>>,
      <<65507, 65507>>, <<65529, 65531>>, <<66045, 66045>>, <<66272, 66272>>, <<66422, 66426>>, <<67456, 67461>>, <<67463, 67504>>,
      <<67506, 67514>>, <<68097, 68099>>, <<68101, 68102>>, <<68108, 68111>>, <<68152, 68154>>, <<68159, 68159>>, <<68325, 68326>>,
      <<68900, 68903>>, <<68942, 68942>>, <<68969, 68973>>, <<68975, 68975>>, <<69291, 69292>>, <<69317, 69317>>, <<69370, 69375>>,
      <<69446, 69456>>, <<69506, 69509>>, <<69633, 69633>>, <<69688, 69702>>, <<69744, 69744>>, <<69747, 69748>>, <<69759, 69761>>,
      <<69811, 69814>>, <<69817, 69818>>, <<69821, 69821>>, <<69826, 69826>>, <<69837, 69837>>, <<69888, 69890>>, <<69927, 69931>>,
      <<69933, 69940>>, <<70003, 70003>>, <<70016, 70017>>, <<70070, 70078>>, <<70089, 70092>>, <<70095, 70095>>, <<70191, 70193>>,
      <<70196, 70196>>, <<70198, 70199>>, <<70206, 70206>>, <<70209, 70209>>, <<70367, 70367>>, <<70371, 70378>>, <<70400, 70401>>,
      <<70459, 70460>>, <<70464, 70464>>, <<70502, 70508>>, <<70512, 70516>>, <<70587, 70592>>, <<70606, 70606>>, <<70608, 70608>>,
      <<70610, 70610>>, <<70625, 70626>>, <<70712, 70719>>, <<70722, 70724>>, <<70726, 70726>>, <<70750, 70750>>, <<70835, 70840>>,
      <<70842, 70842>>, <<70847, 70848>>, <<70850, 70851>>, <<71090, 71093>>, <<71100, 71101>>, <<71103, 71104>>, <<71132, 71133>>,
      <<71219, 71226>>, <<71229, 71229>>, <<71231, 71232>>, <<71339, 71339>>, <<71341, 71341>>, <<71344, 71349>>, <<71351, 71351>>,
      <<71453, 71453>>, <<71455, 71455>>, <<71458, 71461>>, <<71463, 71467>>, <<71727, 71735>>, <<71737, 71738>>, <<71995, 71996>>,
      <<71998, 71998>>, <<72003, 72003>>, <<72148, 72151>>, <<72154, 72155>>, <<72160, 72160>>, <<72193, 72202>>, <<72243, 72248>>,
      <<72251, 72254>>, <<72263, 72263>>, <<72273, 72278>>, <<72281, 72283>>, <<72330, 72342>>, <<72344, 72345>>, <<72544, 72544>>,
      <<72546, 72548>>, <<72550, 72550>>, <<72752, 72758>>, <<72760, 72765>>, <<72767, 72767>>, <<72850, 72871>>, <<72874, 72880>>,
      <<72882, 72883>>, <<72885, 72886>>, <<73009, 73014>>, <<73018, 73018>>, <<73020, 73021>>, <<73023, 73029>>, <<73031, 73031>>,
      <<73104, 73105>>, <<73109, 73109>>, <<73111, 73111>>, <<73177, 73177>>, <<73459, 73460>>, <<73472, 73473>>, <<73526, 73530>>,
      <<73536, 73536>>, <<73538, 73538>>, <<73562, 73562>>, <<78896, 78912>>, <<78919, 78933>>, <<90398, 90409>>, <<90413, 90415>>,
      <<92912, 92916>>, <<92976, 92982>>, <<92992, 92995>>, <<93504, 93506>>, <<93547, 93548>>, <<94031, 94031>>, <<94095, 94111>>,
      <<94176, 94177>>, <<94179, 94180>>, <<94194, 94195>>, <<110576, 110579>>, <<110581, 110587>>, <<110589, 110590>>, <<113821, 113822>>,
      <<113824, 113827>>, <<118528, 118573>>, <<118576, 118598>>, <<119143, 119145>>, <<119155, 119170>>, <<119173, 119179>>, <<119210, 119213>>,
      <<119362, 119364>>, <<121344, 121398>>, <<121403, 121452>>, <<121461, 121461>>, <<121476, 121476>>, <<121499, 121503>>, <<121505, 121519>>,
      <<122880, 122886>>, <<122888, 122904>>, <<122907, 122913>>, <<122915, 122916>>, <<122918, 122922>>, <<122928, 122989>>, <<123023, 123023>>,
      <<123184, 123197>>, <<123566, 123566>>, <<123628, 123631>>, <<124139, 124143>>, <<124398, 124399>>, <<124643, 124643>>, <<124646, 124646>>,
      <<124654, 124655>>, <<124661, 124661>>, <<124671, 124671>>, <<125136, 125142>>, <<125252, 125259>>, <<127995, 127999>>, <<917505, 917505>>,
      <<917536, 917631>>, <<917760, 917999>>
    >>

\* String.prototype.toLowerCase: the string is read as code points (a high
\* surrogate followed by a low surrogate is one code point), every code
\* point is replaced by its lower case mapping, and the result is written
\* as code units.  U+0130 becomes U+0069 U+0307, and a capital sigma
\* becomes the final sigma U+03C2 when a cased letter precedes it and none
\* follows it, case-ignorable code points being skipped on both sides.
toLowerCase(x) ==
    LET InRanges(ranges, c) ==
            \E k \in 1..Len(ranges) : ranges[k][1] <= c /\ c <= ranges[k][2]
        RECURSIVE CodePoints(_)
        CodePoints(units) ==
            IF units = <<>> THEN <<>>
            ELSE IF /\ Len(units) >= 2
                    /\ units[1] \in 55296..56319
                    /\ units[2] \in 56320..57343
            THEN <<65536 + (units[1] - 55296) * 1024 + (units[2] - 56320)>>
                    \o CodePoints(SubSeq(units, 3, Len(units)))
            ELSE <<units[1]>> \o CodePoints(Tail(units))
        points == CodePoints(x.v)
        RECURSIVE CasedBefore(_)
        CasedBefore(i) ==
            IF i < 1 THEN FALSE
            ELSE IF InRanges(CaseIgnorable, points[i]) THEN CasedBefore(i - 1)
            ELSE InRanges(Cased, points[i])
        RECURSIVE CasedAfter(_)
        CasedAfter(i) ==
            IF i > Len(points) THEN FALSE
            ELSE IF InRanges(CaseIgnorable, points[i]) THEN CasedAfter(i + 1)
            ELSE InRanges(Cased, points[i])
        Mapped(c) ==
            LET hit == {k \in 1..Len(LowercaseMapping) :
                           /\ LowercaseMapping[k][1] <= c
                           /\ c <= LowercaseMapping[k][2]
                           /\ (c - LowercaseMapping[k][1]) % LowercaseMapping[k][3] = 0}
            IN  IF hit = {} THEN c
                ELSE c + LowercaseMapping[CHOOSE k \in hit : TRUE][4]
        Lower(i) ==
            LET c == points[i]
            IN  IF c < 128 THEN <<IF 65 <= c /\ c <= 90 THEN c + 32 ELSE c>>
                ELSE IF c = 304 THEN <<105, 775>>
                ELSE IF c = 931
                THEN <<IF CasedBefore(i - 1) /\ ~CasedAfter(i + 1)
                       THEN 962 ELSE 963>>
                ELSE <<Mapped(c)>>
        CodeUnits(c) ==
            IF c < 65536 THEN <<c>>
            ELSE <<55296 + ((c - 65536) \div 1024), 56320 + ((c - 65536) % 1024)>>
        RECURSIVE Encode(_)
        Encode(cs) ==
            IF cs = <<>> THEN <<>> ELSE CodeUnits(Head(cs)) \o Encode(Tail(cs))
        RECURSIVE LowerFrom(_)
        LowerFrom(i) ==
            IF i > Len(points) THEN <<>>
            ELSE Encode(Lower(i)) \o LowerFrom(i + 1)
    IN  Text(LowerFrom(1))

\* the decimal digits of a natural number
RECURSIVE Digits(_)
Digits(n) ==
    LET digit == <<48, 49, 50, 51, 52, 53, 54, 55, 56, 57>>[(n % 10) + 1]
    IN  IF n < 10 THEN <<digit>> ELSE Append(Digits(n \div 10), digit)

\* String(x): a string is itself, a number its decimal form, an object
\* "[object Object]" and an array its items joined by commas, null and
\* undefined items being empty
RECURSIVE JSString(_)
JSString(x) ==
    CASE x.t = "string" -> x
      [] x.t = "number" ->
            Text(IF x.v < 0 THEN <<45>> \o Digits(0 - x.v) ELSE Digits(x.v))
      [] x.t = "boolean" ->
            Text(IF x.v THEN <<116, 114, 117, 101>> ELSE <<102, 97, 108, 115, 101>>)
      [] x.t = "null" -> Text(<<110, 117, 108, 108>>)
      [] x.t = "undefined" ->
            Text(<<117, 110, 100, 101, 102, 105, 110, 101, 100>>)
      [] x.t = "NaN" -> Text(<<78, 97, 78>>)
      [] x.t = "Infinity" ->
            Text((IF x.v < 0 THEN <<45>> ELSE <<>>)
                    \o <<73, 110, 102, 105, 110, 105, 116, 121>>)
      [] x.t = "array" ->
            LET item(i) == IF x.v[i].t \in {"null", "undefined"} THEN <<>>
                           ELSE JSString(x.v[i]).v
                join[i \in 0..Len(x.v)] ==
                    IF i = 0 THEN <<>>
                    ELSE IF i = 1 THEN item(1)
                    ELSE join[i - 1] \o <<44>> \o item(i)
            IN  Text(join[Len(x.v)])
      [] OTHER ->
            Text(<<91, 111, 98, 106, 101, 99, 116, 32,
                   79, 98, 106, 101, 99, 116, 93>>)

\* String(x || '')
StringOrEmpty(x) == IF Truthy(x) THEN JSString(x) ELSE Text(<<>>)

\* httpError(status, message): the error a handler throws to the error
\* middleware, which answers with its status
httpError(status, message) == [status |-> status, message |-> message]

\* an error that is not an httpError (a TypeError, an error of the store):
\* the error middleware answers 500
Uncaught(message) == [status |-> 500, message |-> message]

NoError == [status |-> 0, message |-> "none"]

\* the first error of a sequence of checks, as the first throw reached
FirstError(errors) ==
    LET failed == {i \in 1..Len(errors) : errors[i] # NoError}
    IN  IF failed = {} THEN NoError
        ELSE errors[CHOOSE i \in failed : \A j \in failed : i <= j]

(* --------------------------- configuration: schemas -------------------- *)

\* a value that a schema type cannot cast
CastError == [t |-> "CastError", v |-> 0]

\* the cast of a String path: null and undefined are kept, a value whose
\* _id is a non-empty string becomes that _id, a string is kept, a number or
\* a boolean becomes its string, and any other object and every array cannot
\* be cast
CastString(x) ==
    CASE x.t \in {"string", "null", "undefined"} -> x
      [] x.t = "object" ->
            IF Field(x, "_id").t = "string" /\ Truthy(Field(x, "_id"))
            THEN Field(x, "_id") ELSE CastError
      [] x.t = "array" -> CastError
      [] OTHER -> JSString(x)

\* a String path with trim: true
CastTrimmed(x) ==
    IF CastString(x).t = "string" THEN trim(CastString(x)) ELSE CastString(x)

\* the cast of a Boolean path: true, 'true', 1, '1' and 'yes' are true,
\* false, 'false', 0, '0' and 'no' are false, null and undefined are kept,
\* and no other value can be cast
CastBoolean(x) ==
    CASE x.t \in {"boolean", "null", "undefined"} -> x
      [] x.t = "number" /\ x.v \in {0, 1} -> Bool(x.v = 1)
      [] x.t = "string" /\ x.v \in {<<116, 114, 117, 101>>, <<49>>,
                                     <<121, 101, 115>>} -> Bool(TRUE)
      [] x.t = "string" /\ x.v \in {<<102, 97, 108, 115, 101>>, <<48>>,
                                     <<110, 111>>} -> Bool(FALSE)
      [] OTHER -> CastError

\* CollectionRuleSchema with its defaults
DefaultRules ==
    [frequency |-> Text(<<119, 101, 101, 107, 108, 121>>),
     timeSlot |-> Text(<<48, 56, 58, 48, 48, 45, 49, 50, 58, 48, 48>>),
     maxBinsPerCollection |-> Num(1)]

\* a SystemConfig document created from {}
DefaultConfig ==
    [activeBillingModel |-> Text(<<>>),
     billingModels |-> <<>>,
     wasteCategories |-> <<>>,
     collectionRules |-> DefaultRules]

\* BillingModelSchema: name is trimmed
CastBillingModel(model) == [name |-> trim(model.v.name), rate |-> model.v.rate]

\* WasteCategorySchema of the configuration: key and label are trimmed
CastCategory(category) ==
    [key |-> trim(category.v.key), label |-> trim(category.v.label)]

\* CollectionRuleSchema: a field the object does not have takes its default,
\* frequency and timeSlot are cast to trimmed strings
CastRules(rules) ==
    [frequency |->
        IF Field(rules, "frequency").t = "undefined" THEN DefaultRules.frequency
        ELSE CastTrimmed(Field(rules, "frequency")),
     timeSlot |->
        IF Field(rules, "timeSlot").t = "undefined" THEN DefaultRules.timeSlot
        ELSE CastTrimmed(Field(rules, "timeSlot")),
     maxBinsPerCollection |->
        IF Field(rules, "maxBinsPerCollection").t = "undefined"
        THEN DefaultRules.maxBinsPerCollection
        ELSE Field(rules, "maxBinsPerCollection")]

\* the update holds a value that its path cannot cast: findOneAndUpdate
\* rejects with a CastError before anything is written
UpdateCastError(update) ==
    \/ CastString(update.activeBillingModel) = CastError
    \/ /\ update.collectionRules.t = "object"
       /\ \/ CastRules(update.collectionRules).frequency = CastError
          \/ CastRules(update.collectionRules).timeSlot = CastError

\* the document after $set of the fields the update carries
ApplyUpdate(doc, update) ==
    [activeBillingModel |->
        IF update.activeBillingModel.t = "undefined" THEN doc.activeBillingModel
        ELSE CastString(update.activeBillingModel),
     billingModels |->
        IF update.billingModels.t = "undefined" THEN doc.billingModels
        ELSE [i \in 1..Len(update.billingModels.v) |->
                 CastBillingModel(update.billingModels.v[i])],
     wasteCategories |->
        IF update.wasteCategories.t = "undefined" THEN doc.wasteCategories
        ELSE [i \in 1..Len(update.wasteCategories.v) |->
                 CastCategory(update.wasteCategories.v[i])],
     collectionRules |->
        IF update.collectionRules.t = "undefined" THEN doc.collectionRules
        ELSE CastRules(update.collectionRules)]

\* SystemConfig.findOneAndUpdate({}, update, {new, upsert}): the first
\* document is updated, and one is inserted when there is none
findOneAndUpdate(docs, update) ==
    IF docs = <<>> THEN <<ApplyUpdate(DefaultConfig, update)>>
    ELSE [docs EXCEPT ![1] = ApplyUpdate(@, update)]

\* a WasteCategory document: the key is trimmed and lowercased, the label
\* and the description are trimmed, a description that is not given is ''
NewCategory(id, key, label, description) ==
    [id |-> id,
     key |-> IF CastTrimmed(key).t = "string"
             THEN toLowerCase(CastTrimmed(key)) ELSE CastTrimmed(key),
     label |-> CastTrimmed(label),
     description |-> IF description.t = "undefined" THEN Text(<<>>)
                     ELSE CastTrimmed(description),
     isActive |-> Bool(TRUE)]

\* a required String path has no value
Missing(x) == x.t \in {"undefined", "null"} \/ x = Text(<<>>)

\* the validation of a SystemConfig document before it is saved fails: an
\* entry of wasteCategories that is not null has no key or no label
ConfigInvalid(cfg) ==
    \E i \in 1..Len(cfg.wasteCategories) :
        /\ cfg.wasteCategories[i] # Null
        /\ \/ Missing(cfg.wasteCategories[i].key)
           \/ Missing(cfg.wasteCategories[i].label)

\* the validation of a new WasteCategory document fails: a path cannot be
\* cast, or a required path is empty
CategoryInvalid(category) ==
    \/ CastError \in {category.key, category.label, category.description}
    \/ Missing(category.key)
    \/ Missing(category.label)

\* notifyDependentModules(updatedConfig, changeType): the arrays and the
\* sub-document of a document are objects, and an object is truthy.  After
\* the notification of Reporting has been pushed, wasteCategories.map(c =>
\* c.key) throws a TypeError on an entry that is null: the catch block
\* returns the failure with the notifications pushed so far.
notifyDependentModules(updatedConfig, changeType) ==
    LET billing ==
            IF \/ Truthy(updatedConfig.activeBillingModel)
               \/ Truthy(Arr(updatedConfig.billingModels))
            THEN <<"Billing">> ELSE <<>>
        reporting ==
            IF Truthy(Arr(updatedConfig.wasteCategories))
            THEN <<"Reporting">> ELSE <<>>
        tracking ==
            IF Truthy(Obj(updatedConfig.collectionRules))
            THEN <<"Waste Tracking">> ELSE <<>>
    IN  IF \E i \in 1..Len(updatedConfig.wasteCategories) :
               updatedConfig.wasteCategories[i] = Null
        THEN [success |-> FALSE,
              error |-> "TypeError: Cannot read properties of null",
              notifications |-> billing \o reporting]
        ELSE [success |-> TRUE,
              notifications |-> billing \o reporting \o tracking,
              changeType |-> changeType]

(* ------------------------- configuration: validation ------------------- *)

\* checks of one element that refuse a rate of 0 as well
BillingModelErrorPositive(model) ==
    IF ~Truthy(model) \/ typeof(model) # "object"
    THEN httpError(400, "Each billing model must be an object")
    ELSE IF \/ ~Truthy(Field(model, "name"))
            \/ typeof(Field(model, "name")) # "string"
            \/ ~Truthy(trim(Field(model, "name")))
    THEN httpError(400, "Billing model name is required and must be a non-empty string")
    ELSE IF Field(model, "rate").t \in {"undefined", "null"}
    THEN httpError(400, "Billing model rate is required")
    ELSE IF typeof(Field(model, "rate")) # "number" \/ isNaN(Field(model, "rate"))
    THEN httpError(400, "Billing model rate must be a valid number")
    ELSE IF ~JSLess(Num(0), Field(model, "rate"))
    THEN httpError(400, "Billing model rate cannot be negative")
    ELSE NoError

\* the checks of one element of update.billingModels
BillingModelError(model) ==
    IF ~Truthy(model) \/ typeof(model) # "object"
    THEN httpError(400, "Each billing model must be an object")
    ELSE IF \/ ~Truthy(Field(model, "name"))
            \/ typeof(Field(model, "name")) # "string"
            \/ ~Truthy(trim(Field(model, "name")))
    THEN httpError(400, "Billing model name is required and must be a non-empty string")
    ELSE IF Field(model, "rate").t \in {"undefined", "null"}
    THEN httpError(400, "Billing model rate is required")
    ELSE IF typeof(Field(model, "rate")) # "number" \/ isNaN(Field(model, "rate"))
    THEN httpError(400, "Billing model rate must be a valid number")
    ELSE IF JSLess(Field(model, "rate"), Num(0))
    THEN httpError(400, "Billing model rate cannot be negative")
    ELSE NoError

\* Validate billing models
BillingModelsError(update) ==
    IF update.billingModels.t = "array"
    THEN FirstError([i \in 1..Len(update.billingModels.v) |->
                        BillingModelError(update.billingModels.v[i])])
    ELSE IF update.billingModels.t # "undefined"
    THEN httpError(400, "Billing models must be an array")
    ELSE NoError

\* the checks of one element of update.wasteCategories
CategoryError(category) ==
    IF ~Truthy(category) \/ typeof(category) # "object"
    THEN httpError(400, "Each waste category must be an object")
    ELSE IF \/ ~Truthy(Field(category, "key"))
            \/ typeof(Field(category, "key")) # "string"
            \/ ~Truthy(trim(Field(category, "key")))
    THEN httpError(400, "Waste category key is required and must be a non-empty string")
    ELSE IF \/ ~Truthy(Field(category, "label"))
            \/ typeof(Field(category, "label")) # "string"
            \/ ~Truthy(trim(Field(category, "label")))
    THEN httpError(400, "Waste category label is required and must be a non-empty string")
    ELSE NoError

\* update.wasteCategories.filter(c => c && c.key && String(c.key).trim())
FilterCategories(cs) ==
    SelectSeq(cs, LAMBDA c : /\ Truthy(c)
                             /\ Truthy(Field(c, "key"))
                             /\ Truthy(trim(JSString(Field(c, "key")))))

\* a search for a key that occurs twice among the keys as they were sent,
\* not trimmed
DuplicateKeyErrorUntrimmed(cs) ==
    LET keys == [i \in 1..Len(cs) |-> StringOrEmpty(Field(cs[i], "key"))]
    IN  IF \E i, j \in 1..Len(keys) : j < i /\ keys[j] = keys[i]
        THEN httpError(422, "Duplicate waste category key")
        ELSE NoError

\* keys.find((k, i) => keys.indexOf(k) !== i): some key occurs twice
DuplicateKeyError(cs) ==
    LET keys == [i \in 1..Len(cs) |-> trim(StringOrEmpty(Field(cs[i], "key")))]
    IN  IF \E i, j \in 1..Len(keys) : j < i /\ keys[j] = keys[i]
        THEN httpError(422, "Duplicate waste category key")
        ELSE NoError

\* Validate waste categories
WasteCategoriesError(update) ==
    IF update.wasteCategories.t = "array"
    THEN LET each == FirstError([i \in 1..Len(update.wasteCategories.v) |->
                                    CategoryError(update.wasteCategories.v[i])])
         IN  IF each # NoError THEN each
             ELSE DuplicateKeyError(FilterCategories(update.wasteCategories.v))
    ELSE IF update.wasteCategories.t # "undefined"
    THEN httpError(400, "Waste categories must be an array")
    ELSE NoError

\* Validate collection rules: null is an object that is not an array, and
\* reading its maxBinsPerCollection throws a TypeError
CollectionRulesError(update) ==
    IF update.collectionRules.t = "undefined" THEN NoError
    ELSE IF typeof(update.collectionRules) # "object" \/ update.collectionRules.t = "array"
    THEN httpError(400, "Collection rules must be an object")
    ELSE IF update.collectionRules.t = "null"
    THEN Uncaught("TypeError: Cannot read properties of null")
    ELSE IF /\ Field(update.collectionRules, "maxBinsPerCollection").t # "undefined"
            /\ \/ typeof(Field(update.collectionRules, "maxBinsPerCollection")) # "number"
               \/ isNaN(Field(update.collectionRules, "maxBinsPerCollection"))
    THEN httpError(400, "maxBinsPerCollection must be a valid number")
    ELSE NoError

\* an active model checked against lists of two or more models only
ActiveModelErrorWide(update) ==
    IF Truthy(update.activeBillingModel) /\ update.billingModels.t = "array"
    THEN LET modelExists ==
                 \E i \in 1..Len(update.billingModels.v) :
                     trim(StringOrEmpty(Field(update.billingModels.v[i], "name")))
                         = trim(JSString(update.activeBillingModel))
         IN  IF ~modelExists /\ Len(update.billingModels.v) > 1
             THEN httpError(422, "Active billing model must exist in billing models list")
             ELSE NoError
    ELSE NoError

\* Validate active billing model exists in billing models list
ActiveModelError(update) ==
    IF Truthy(update.activeBillingModel) /\ update.billingModels.t = "array"
    THEN LET modelExists ==
                 \E i \in 1..Len(update.billingModels.v) :
                     trim(StringOrEmpty(Field(update.billingModels.v[i], "name")))
                         = trim(JSString(update.activeBillingModel))
         IN  IF ~modelExists /\ Len(update.billingModels.v) > 0
             THEN httpError(422, "Active billing model must exist in billing models list")
             ELSE NoError
    ELSE NoError

\* the validation of updateConfig: the first check that throws
ValidationError(update) ==
    FirstError(<<BillingModelsError(update),
                 WasteCategoriesError(update),
                 CollectionRulesError(update),
                 ActiveModelError(update)>>)

(* -------------------------- configuration: handlers -------------------- *)

\* Several requests are in progress at a time: a handler runs from one await
\* to the next without interruption, and between two awaits the other
\* requests take their steps.  calls[c] holds the invocation in slot c: the
\* endpoint, the token and the parameters of the request, the await it is
\* suspended at, its locals (the validated update, the SystemConfig document
\* cfg, the WasteCategory document category), the response and the
\* notifications it has caused.  Of the document cfg it also holds what
\* Mongoose tracks: whether the handler has modified it (dirty), whether the
\* stored document has been deleted since it was read (gone) and whether the
\* version of the stored document has been incremented since (stale).  Each handler is a function of the slot up to
\* its first await, and one step for every store operation it awaits.

\* the response is sent: the invocation is over
Responds(slot, response) ==
    [slot EXCEPT !.pc = "done", !.reply = <<response>>,
                 !.update = <<>>, !.cfg = <<>>, !.category = <<>>,
                 !.dirty = FALSE, !.gone = FALSE, !.stale = FALSE]

\* the invocation is suspended at the await of an operation
Awaits(slot, at) == [slot EXCEPT !.pc = at]

\* the invocation in slot c is suspended at that await of that handler
At(c, op, at) == calls[c].op = op /\ calls[c].pc = at

\* getConfig up to the await of SystemConfig.findOne()
getConfig(slot) == Awaits(slot, "findOne")

\* a handler that does not create a document: it answers with the default
\* values when there is none
getConfigFindOnly(c) ==
    /\ At(c, "getConfig", "findOne")
    /\ calls' = [calls EXCEPT ![c] =
          Responds(calls[c],
              [status |-> 200,
               body |-> IF configs # <<>> THEN configs[1] ELSE DefaultConfig])]
    /\ UNCHANGED <<configs, categories, nextId>>
    /\ UNCHANGED <<routeVars, peer>>

\* getConfig: SystemConfig.findOne() resolves; with a document the handler
\* answers, without one it calls SystemConfig.create({})
getConfigFindOne(c) ==
    /\ At(c, "getConfig", "findOne")
    /\ calls' = [calls EXCEPT ![c] =
          IF configs # <<>>
          THEN Responds(calls[c], [status |-> 200, body |-> configs[1]])
          ELSE Awaits(calls[c], "create")]
    /\ UNCHANGED <<configs, categories, nextId>>
    /\ UNCHANGED <<routeVars, peer>>

\* getConfig: SystemConfig.create({}) resolves and the handler answers
getConfigCreate(c) ==
    /\ At(c, "getConfig", "create")
    /\ configs' = Append(configs, DefaultConfig)
    /\ calls' = [calls EXCEPT ![c] =
          Responds(calls[c], [status |-> 200, body |-> DefaultConfig])]
    /\ UNCHANGED <<categories, nextId>>
    /\ UNCHANGED <<routeVars, peer>>

\* updateConfig up to the await of SystemConfig.findOneAndUpdate: the
\* validation of the body, which throws or leaves the update to be written,
\* with update.wasteCategories replaced by its filter
updateConfig(slot) ==
    LET update == slot.params.body
        error == ValidationError(update)
    IN  IF error # NoError THEN Responds(slot, error)
        ELSE [Awaits(slot, "findOneAndUpdate") EXCEPT
                 !.update =
                     <<[update EXCEPT !.wasteCategories =
                           IF @.t = "array" THEN Arr(FilterCategories(@.v))
                           ELSE @]>>]

\* updateConfig: SystemConfig.findOneAndUpdate resolves with the new
\* document and the handler calls notifyDependentModules, or it rejects with
\* a CastError, which the catch block turns into a 400
updateConfigFindOneAndUpdate(c) ==
    /\ At(c, "updateConfig", "findOneAndUpdate")
    /\ IF UpdateCastError(calls[c].update[1])
       THEN /\ calls' = [calls EXCEPT ![c] =
                  Responds(calls[c], httpError(400, "Validation error"))]
            /\ UNCHANGED configs
       ELSE /\ configs' = findOneAndUpdate(configs, calls[c].update[1])
            /\ calls' = [calls EXCEPT ![c] =
                  [Awaits(calls[c], "notify") EXCEPT
                      !.update = <<>>, !.cfg = <<configs'[1]>>]]
    /\ UNCHANGED <<categories, nextId>>
    /\ UNCHANGED <<routeVars, peer>>

\* updateConfig: notifyDependentModules(cfg, 'settings_updated') resolves
\* and the handler answers
updateConfigNotify(c) ==
    /\ At(c, "updateConfig", "notify")
    /\ LET cfg == calls[c].cfg[1]
           notificationResult == notifyDependentModules(cfg, "settings_updated")
       IN  calls' = [calls EXCEPT ![c] =
              [Responds(calls[c],
                   [status |-> 200,
                    body |-> [config |-> cfg,
                              notifications |-> notificationResult,
                              message |-> "Settings updated successfully"]])
               EXCEPT !.notices = <<notificationResult>>]]
    /\ UNCHANGED <<configs, categories, nextId>>
    /\ UNCHANGED <<routeVars, peer>>

\* deleteConfig up to the await of SystemConfig.deleteMany({})
deleteConfig(slot) == Awaits(slot, "deleteMany")

\* deleteConfig: SystemConfig.deleteMany({}) resolves and the handler
\* answers 204.  A document that another invocation has read and is about to
\* save is no longer in the collection.
deleteConfigDeleteMany(c) ==
    /\ At(c, "deleteConfig", "deleteMany")
    /\ configs' = <<>>
    /\ calls' = [d \in DOMAIN calls |->
          IF d = c THEN Responds(calls[c], [status |-> 204, body |-> <<>>])
          ELSE IF calls[d].pc = "save" THEN [calls[d] EXCEPT !.gone = TRUE]
          ELSE calls[d]]
    /\ UNCHANGED <<categories, nextId>>
    /\ UNCHANGED <<routeVars, peer>>

\* the items of s from the last to the first
RECURSIVE Reverse(_)
Reverse(s) == IF s = <<>> THEN <<>> ELSE Append(Reverse(Tail(s)), Head(s))

\* getAllCategories up to the await of WasteCategory.find(...).sort(...)
getAllCategories(slot) == Awaits(slot, "find")

\* getAllCategories: find({ isActive: true }).sort({ createdAt: -1 })
\* resolves with the active categories, the newest first, and the handler
\* answers
getAllCategoriesFind(c) ==
    /\ At(c, "getAllCategories", "find")
    /\ calls' = [calls EXCEPT ![c] =
          Responds(calls[c],
              [status |-> 200,
               body |-> Reverse(SelectSeq(categories,
                            LAMBDA category : category.isActive = Bool(TRUE)))])]
    /\ UNCHANGED <<configs, categories, nextId>>
    /\ UNCHANGED <<routeVars, peer>>

\* the test of the pre-save hook of WasteCategorySchema on a non-empty key:
\* /^[a-z0-9-]+$/
KeyPattern(key) ==
    \A i \in 1..Len(key.v) :
        \/ key.v[i] \in 97..122
        \/ key.v[i] \in 48..57
        \/ key.v[i] = 45

\* the response of addCategory: the new document and a message with the
\* label of the request
AddCategoryResponse(category, label) ==
    [status |-> 201,
     body |-> [category |-> category,
               message |-> <<"Category '", label, "' added successfully">>]]

\* addCategory up to the await of WasteCategory.findOne: key and label are
\* required, and key.toLowerCase() is called
addCategory(slot) ==
    LET key == Field(slot.params.body, "key")
        label == Field(slot.params.body, "label")
    IN  IF ~Truthy(key) \/ ~Truthy(label)
        THEN Responds(slot, httpError(400, "Category key and label are required"))
        ELSE IF typeof(key) # "string"
        THEN Responds(slot, Uncaught("TypeError: key.toLowerCase is not a function"))
        ELSE Awaits(slot, "findOne")

\* a handler that does not look for an existing category
addCategoryFindOneNoLookup(c) ==
    /\ At(c, "addCategory", "findOne")
    /\ calls' = [calls EXCEPT ![c] = Awaits(calls[c], "create")]
    /\ UNCHANGED <<configs, categories, nextId>>
    /\ UNCHANGED <<routeVars, peer>>

\* addCategory: WasteCategory.findOne({ key: key.toLowerCase() }) resolves;
\* with a category the handler throws 422, without one it calls
\* WasteCategory.create.  The filter is cast as the key path of the schema
\* casts a value: to a string, trimmed and in lowercase.
addCategoryFindOne(c) ==
    /\ At(c, "addCategory", "findOne")
    /\ LET key == toLowerCase(Field(calls[c].params.body, "key"))
           filter == toLowerCase(CastTrimmed(key))
           existing == \E i \in 1..Len(categories) : categories[i].key = filter
       IN  calls' = [calls EXCEPT ![c] =
              IF existing
              THEN Responds(calls[c],
                       httpError(422, <<"Category with key '",
                                        Field(calls[c].params.body, "key"),
                                        "' already exists">>))
              ELSE Awaits(calls[c], "create")]
    /\ UNCHANGED <<configs, categories, nextId>>
    /\ UNCHANGED <<routeVars, peer>>

\* addCategory: WasteCategory.create resolves with the new document and the
\* handler calls SystemConfig.findOne(), or it rejects: the validation of the
\* document, then the pre-save hook, then the unique index on key
addCategoryCreate(c) ==
    /\ At(c, "addCategory", "create")
    /\ LET body == calls[c].params.body
           category == NewCategory(nextId, Field(body, "key"), Field(body, "label"),
                                   Field(body, "description"))
           error ==
               IF CategoryInvalid(category)
               THEN Uncaught("ValidationError")
               ELSE IF ~KeyPattern(category.key)
               THEN Uncaught("Category key must contain only lowercase letters, numbers, and hyphens")
               ELSE IF \E i \in 1..Len(categories) : categories[i].key = category.key
               THEN Uncaught("E11000 duplicate key error")
               ELSE NoError
       IN  IF error # NoError
           THEN /\ calls' = [calls EXCEPT ![c] = Responds(calls[c], error)]
                /\ UNCHANGED <<categories, nextId>>
           ELSE /\ nextId <= MaxIds
                /\ categories' = Append(categories, category)
                /\ nextId' = nextId + 1
                /\ calls' = [calls EXCEPT ![c] =
                      [Awaits(calls[c], "findConfig") EXCEPT !.category = <<category>>]]
    /\ UNCHANGED configs
    /\ UNCHANGED <<routeVars, peer>>

\* addCategory: SystemConfig.findOne() resolves; with a document the handler
\* pushes the category onto its wasteCategories and calls cfg.save(), without
\* one it answers
addCategoryFindConfig(c) ==
    /\ At(c, "addCategory", "findConfig")
    /\ LET category == calls[c].category[1]
       IN  calls' = [calls EXCEPT ![c] =
              IF configs = <<>>
              THEN Responds(calls[c],
                       AddCategoryResponse(category,
                           Field(calls[c].params.body, "label")))
              ELSE [Awaits(calls[c], "save") EXCEPT
                       !.dirty = TRUE,
                       !.cfg = <<[configs[1] EXCEPT !.wasteCategories =
                                     Append(@, [key |-> category.key,
                                                label |-> category.label])]>>]]
    /\ UNCHANGED <<configs, categories, nextId>>
    /\ UNCHANGED <<routeVars, peer>>

\* cfg.save() validates the document and then sends what the handler has
\* modified of it, for the version of the document that was read.  It
\* rejects with a ValidationError, and writes nothing, when an entry of the
\* document that was read has no key or no label.  Without a modification nothing
\* is written, and the save rejects with a DocumentNotFoundError when the
\* document is not in the collection any more.  An update of an entry of
\* wasteCategories or of the whole list is applied only when the stored
\* document has the version that was read, and the save rejects with a
\* VersionError otherwise; a pushed entry is appended whatever the version.
\* A push and an update of the whole list increment the version: the
\* invocations that are about to save then hold a stale version.
\*
\* addCategory: cfg.save() of a document with an entry pushed onto its
\* wasteCategories resolves, and the handler calls notifyDependentModules
addCategorySave(c) ==
    /\ At(c, "addCategory", "save")
    /\ LET category == calls[c].category[1]
       IN  IF ConfigInvalid(calls[c].cfg[1])
           THEN /\ calls' = [calls EXCEPT ![c] =
                      Responds(calls[c], Uncaught("ValidationError"))]
                /\ UNCHANGED configs
           ELSE IF calls[c].gone
           THEN /\ calls' = [calls EXCEPT ![c] =
                      Responds(calls[c], Uncaught("VersionError"))]
                /\ UNCHANGED configs
           ELSE /\ configs' = [configs EXCEPT ![1].wasteCategories =
                                  Append(@, [key |-> category.key,
                                             label |-> category.label])]
                /\ calls' = [d \in DOMAIN calls |->
                      IF d = c THEN Awaits(calls[c], "notify")
                      ELSE IF calls[d].pc = "save"
                      THEN [calls[d] EXCEPT !.stale = TRUE]
                      ELSE calls[d]]
    /\ UNCHANGED <<categories, nextId>>
    /\ UNCHANGED <<routeVars, peer>>

\* addCategory: notifyDependentModules(cfg, 'category_added') resolves and
\* the handler answers
addCategoryNotify(c) ==
    /\ At(c, "addCategory", "notify")
    /\ calls' = [calls EXCEPT ![c] =
          [Responds(calls[c],
               AddCategoryResponse(calls[c].category[1],
                   Field(calls[c].params.body, "label")))
           EXCEPT !.notices =
               <<notifyDependentModules(calls[c].cfg[1], "category_added")>>]]
    /\ UNCHANGED <<configs, categories, nextId>>
    /\ UNCHANGED <<routeVars, peer>>

\* the index of the category with that _id, 0 when there is none
FindById(id) ==
    IF \E i \in 1..Len(categories) : categories[i].id = id.n
    THEN CHOOSE i \in 1..Len(categories) : categories[i].id = id.n
    ELSE 0

\* cfg.wasteCategories.findIndex(c => c.key === key): the index of the first
\* entry with that key, 0 when there is none
FindIndex(list, key) ==
    LET matches == {i \in 1..Len(list) : list[i] # Null /\ list[i].key = key}
    IN  IF matches = {} THEN 0
        ELSE CHOOSE i \in matches : \A j \in matches : i <= j

\* the response of updateCategory
UpdateCategoryResponse(category) ==
    [status |-> 200,
     body |-> [category |-> category, message |-> "Category updated successfully"]]

\* a handler that does not test the format of the id
updateCategoryNoFormatCheck(slot) == Awaits(slot, "findByIdAndUpdate")

\* updateCategory up to the await of WasteCategory.findByIdAndUpdate: the
\* id is 24 hexadecimal characters
updateCategory(slot) ==
    IF ~slot.params.id.hex24
    THEN Responds(slot, httpError(400, "Invalid category ID format"))
    ELSE Awaits(slot, "findByIdAndUpdate")

\* updateCategory: WasteCategory.findByIdAndUpdate(id, { label, description,
\* isActive }, { new, runValidators }) resolves with the updated document and
\* the handler calls SystemConfig.findOne(), or with null and the handler
\* throws 404, or it rejects with a CastError or a ValidationError, which the
\* catch block turns into a 400.  A field that is undefined is not set.
updateCategoryFindByIdAndUpdate(c) ==
    /\ At(c, "updateCategory", "findByIdAndUpdate")
    /\ LET id == calls[c].params.id
           body == calls[c].params.body
           label == CastTrimmed(Field(body, "label"))
           description == CastTrimmed(Field(body, "description"))
           isActive == CastBoolean(Field(body, "isActive"))
           at == FindById(id)
       IN  IF \/ ~id.hex24
              \/ CastError \in {label, description, isActive}
              \/ (label # Undefined /\ Missing(label))
           THEN /\ calls' = [calls EXCEPT ![c] =
                      Responds(calls[c], httpError(400, "Validation error"))]
                /\ UNCHANGED categories
           ELSE IF at = 0
           THEN /\ calls' = [calls EXCEPT ![c] =
                      Responds(calls[c], httpError(404, "Category not found"))]
                /\ UNCHANGED categories
           ELSE /\ categories' = [categories EXCEPT ![at] =
                      [@ EXCEPT
                          !.label = IF label = Undefined THEN @ ELSE label,
                          !.description = IF description = Undefined THEN @
                                          ELSE description,
                          !.isActive = IF isActive = Undefined THEN @ ELSE isActive]]
                /\ calls' = [calls EXCEPT ![c] =
                      [Awaits(calls[c], "findConfig") EXCEPT
                          !.category = <<categories'[at]>>]]
    /\ UNCHANGED <<configs, nextId>>
    /\ UNCHANGED <<routeVars, peer>>

\* updateCategory: SystemConfig.findOne() resolves; when the document lists
\* the key of the category the handler sets the label of the first such
\* entry and calls cfg.save(), otherwise it answers.  The callback of
\* findIndex throws a TypeError on an entry that is null, when it reaches
\* one before an entry with the key; the catch block throws it again.
updateCategoryFindConfig(c) ==
    /\ At(c, "updateCategory", "findConfig")
    /\ LET category == calls[c].category[1]
           list == IF configs = <<>> THEN <<>> ELSE configs[1].wasteCategories
           catIndex == FindIndex(list, category.key)
       IN  calls' = [calls EXCEPT ![c] =
              IF \E j \in 1..Len(list) :
                     list[j] = Null /\ (catIndex = 0 \/ j < catIndex)
              THEN Responds(calls[c],
                       Uncaught("TypeError: Cannot read properties of null"))
              ELSE IF catIndex = 0
              THEN Responds(calls[c], UpdateCategoryResponse(category))
              ELSE [Awaits(calls[c], "save") EXCEPT
                       !.dirty = list[catIndex].label # category.label,
                       !.cfg = <<[configs[1] EXCEPT
                                     !.wasteCategories[catIndex].label =
                                         category.label]>>]]
    /\ UNCHANGED <<configs, categories, nextId>>
    /\ UNCHANGED <<routeVars, peer>>

\* updateCategory: cfg.save() of a document with the label of the entry at
\* catIndex set resolves, and the handler calls notifyDependentModules.  The
\* label is set at the position catIndex of the stored list, whatever the
\* stored list holds by now: a list that is shorter is extended up to that
\* position, with null and with an entry that has the label only, and an
\* entry that is null cannot take the label.  The catch block turns the
\* ValidationError into a 400 and throws the other errors again.
updateCategorySave(c) ==
    /\ At(c, "updateCategory", "save")
    /\ LET category == calls[c].category[1]
           catIndex == FindIndex(calls[c].cfg[1].wasteCategories, category.key)
           stored == configs[1].wasteCategories
       IN  IF ConfigInvalid(calls[c].cfg[1])
           THEN /\ calls' = [calls EXCEPT ![c] =
                      Responds(calls[c], httpError(400, "Validation error"))]
                /\ UNCHANGED configs
           ELSE IF ~calls[c].dirty
           THEN IF calls[c].gone
                THEN /\ calls' = [calls EXCEPT ![c] =
                           Responds(calls[c], Uncaught("DocumentNotFoundError"))]
                     /\ UNCHANGED configs
                ELSE /\ calls' = [calls EXCEPT ![c] = Awaits(calls[c], "notify")]
                     /\ UNCHANGED configs
           ELSE IF calls[c].gone \/ calls[c].stale
           THEN /\ calls' = [calls EXCEPT ![c] =
                      Responds(calls[c], Uncaught("VersionError"))]
                /\ UNCHANGED configs
           ELSE IF catIndex <= Len(stored) /\ stored[catIndex] = Null
           THEN /\ calls' = [calls EXCEPT ![c] =
                      Responds(calls[c],
                          Uncaught("MongoServerError: Cannot create field"))]
                /\ UNCHANGED configs
           ELSE /\ configs' = [configs EXCEPT ![1].wasteCategories =
                      IF catIndex <= Len(stored)
                      THEN [stored EXCEPT ![catIndex].label = category.label]
                      ELSE stored
                              \o [k \in 1..(catIndex - Len(stored) - 1) |-> Null]
                              \o <<[key |-> Undefined, label |-> category.label]>>]
                /\ calls' = [calls EXCEPT ![c] = Awaits(calls[c], "notify")]
    /\ UNCHANGED <<categories, nextId>>
    /\ UNCHANGED <<routeVars, peer>>

\* updateCategory: notifyDependentModules(cfg, 'category_updated') resolves
\* and the handler answers
updateCategoryNotify(c) ==
    /\ At(c, "updateCategory", "notify")
    /\ calls' = [calls EXCEPT ![c] =
          [Responds(calls[c], UpdateCategoryResponse(calls[c].category[1]))
           EXCEPT !.notices =
               <<notifyDependentModules(calls[c].cfg[1], "category_updated")>>]]
    /\ UNCHANGED <<configs, categories, nextId>>
    /\ UNCHANGED <<routeVars, peer>>

\* the sequence without its item at index at
RemoveAt(s, at) == [j \in 1..(Len(s) - 1) |-> IF j < at THEN s[j] ELSE s[j + 1]]

\* the response of deleteCategory: a message with the label of the deleted
\* document
DeleteCategoryResponse(category) ==
    [status |-> 200,
     body |-> [message |-> <<"Category '", category.label,
                             "' deleted successfully">>]]

\* deleteCategory up to the await of WasteCategory.findByIdAndDelete
deleteCategory(slot) == Awaits(slot, "findByIdAndDelete")

\* deleteCategory: WasteCategory.findByIdAndDelete(id) resolves with the
\* deleted document and the handler calls SystemConfig.findOne(), or with
\* null and the handler throws 404, or it rejects with a CastError when the
\* id is not an ObjectId
deleteCategoryFindByIdAndDelete(c) ==
    /\ At(c, "deleteCategory", "findByIdAndDelete")
    /\ LET id == calls[c].params.id
           at == FindById(id)
       IN  IF ~id.hex24
           THEN /\ calls' = [calls EXCEPT ![c] =
                      Responds(calls[c], Uncaught("CastError"))]
                /\ UNCHANGED categories
           ELSE IF at = 0
           THEN /\ calls' = [calls EXCEPT ![c] =
                      Responds(calls[c], httpError(404, "Category not found"))]
                /\ UNCHANGED categories
           ELSE /\ categories' = RemoveAt(categories, at)
                /\ calls' = [calls EXCEPT ![c] =
                      [Awaits(calls[c], "findConfig") EXCEPT
                          !.category = <<categories[at]>>]]
    /\ UNCHANGED <<configs, nextId>>
    /\ UNCHANGED <<routeVars, peer>>

\* deleteCategory: SystemConfig.findOne() resolves; with a document the
\* handler filters the key of the category out of its wasteCategories and
\* calls cfg.save(), without one it answers.  The callback of filter throws
\* a TypeError on an entry that is null.
deleteCategoryFindConfig(c) ==
    /\ At(c, "deleteCategory", "findConfig")
    /\ LET category == calls[c].category[1]
           filtered == SelectSeq(configs[1].wasteCategories,
                                 LAMBDA entry : entry.key # category.key)
       IN  calls' = [calls EXCEPT ![c] =
              IF configs = <<>>
              THEN Responds(calls[c], DeleteCategoryResponse(category))
              ELSE IF \E j \in 1..Len(configs[1].wasteCategories) :
                          configs[1].wasteCategories[j] = Null
              THEN Responds(calls[c],
                       Uncaught("TypeError: Cannot read properties of null"))
              ELSE [Awaits(calls[c], "save") EXCEPT
                       !.dirty = filtered # configs[1].wasteCategories,
                       !.cfg = <<[configs[1] EXCEPT
                                     !.wasteCategories = filtered]>>]]
    /\ UNCHANGED <<configs, categories, nextId>>
    /\ UNCHANGED <<routeVars, peer>>

\* deleteCategory: cfg.save() of a document whose wasteCategories have been
\* set to the filtered list resolves, and the handler calls
\* notifyDependentModules
deleteCategorySave(c) ==
    /\ At(c, "deleteCategory", "save")
    /\ IF ConfigInvalid(calls[c].cfg[1])
       THEN /\ calls' = [calls EXCEPT ![c] =
                  Responds(calls[c], Uncaught("ValidationError"))]
            /\ UNCHANGED configs
       ELSE IF ~calls[c].dirty
       THEN IF calls[c].gone
            THEN /\ calls' = [calls EXCEPT ![c] =
                       Responds(calls[c], Uncaught("DocumentNotFoundError"))]
                 /\ UNCHANGED configs
            ELSE /\ calls' = [calls EXCEPT ![c] = Awaits(calls[c], "notify")]
                 /\ UNCHANGED configs
       ELSE IF calls[c].gone \/ calls[c].stale
       THEN /\ calls' = [calls EXCEPT ![c] =
                  Responds(calls[c], Uncaught("VersionError"))]
            /\ UNCHANGED configs
       ELSE /\ configs' = [configs EXCEPT ![1].wasteCategories =
                              calls[c].cfg[1].wasteCategories]
            /\ calls' = [d \in DOMAIN calls |->
                  IF d = c THEN Awaits(calls[c], "notify")
                  ELSE IF calls[d].pc = "save"
                  THEN [calls[d] EXCEPT !.stale = TRUE]
                  ELSE calls[d]]
    /\ UNCHANGED <<categories, nextId>>
    /\ UNCHANGED <<routeVars, peer>>

\* deleteCategory: notifyDependentModules(cfg, 'category_deleted') resolves
\* and the handler answers
deleteCategoryNotify(c) ==
    /\ At(c, "deleteCategory", "notify")
    /\ calls' = [calls EXCEPT ![c] =
          [Responds(calls[c], DeleteCategoryResponse(calls[c].category[1]))
           EXCEPT !.notices =
               <<notifyDependentModules(calls[c].cfg[1], "category_deleted")>>]]
    /\ UNCHANGED <<configs, categories, nextId>>
    /\ UNCHANGED <<routeVars, peer>>

(* --------------------------- configuration: routes --------------------- *)

\* what a request carries as its token: none, or the role the token names
Creds == {"none", "USER", "ADMIN"}

\* protect: a request without a token is answered 401
protect(cred) ==
    IF cred = "none" THEN httpError(401, "Not authenticated") ELSE NoError

\* adminOnly: a request whose role is not ADMIN is answered 403
adminOnly(cred) ==
    IF cred # "ADMIN" THEN httpError(403, "Admin only") ELSE NoError

\* router.<method>(path, protect, adminOnly, asyncHandler(handler)): the
\* request req arrives in a free slot and runs through protect and adminOnly;
\* when both pass, the slot is the one the handler leaves at its first await
\* or at its response
Route(c, req, handler) ==
    /\ calls[c].pc = "idle"
    /\ calls' = [calls EXCEPT ![c] =
          IF protect(req.cred) # NoError
          THEN Responds(req, protect(req.cred))
          ELSE IF adminOnly(req.cred) # NoError
          THEN Responds(req, adminOnly(req.cred))
          ELSE handler]
    /\ UNCHANGED <<configs, categories, nextId>>
    /\ UNCHANGED <<routeVars, peer>>

GetConfigRoute(c, cred) ==
    LET req == [IdleCall EXCEPT !.op = "getConfig", !.cred = cred]
    IN  Route(c, req, getConfig(req))

\* a PUT / route whose handler stores the active model of the body before it
\* validates the body
UpdateConfigRouteStoresActive(c, cred, body) ==
    LET req == [IdleCall EXCEPT !.op = "updateConfig", !.cred = cred,
                                !.params = [body |-> body]]
    IN  /\ calls[c].pc = "idle"
        /\ calls' = [calls EXCEPT ![c] =
              IF protect(cred) # NoError THEN Responds(req, protect(cred))
              ELSE IF adminOnly(cred) # NoError THEN Responds(req, adminOnly(cred))
              ELSE updateConfig(req)]
        /\ configs' =
              IF cred = "ADMIN" /\ body.activeBillingModel.t = "string"
              THEN findOneAndUpdate(configs,
                       [activeBillingModel |-> body.activeBillingModel,
                        billingModels |-> Undefined, wasteCategories |-> Undefined,
                        collectionRules |-> Undefined])
              ELSE configs
        /\ UNCHANGED <<categories, nextId>>
        /\ UNCHANGED <<routeVars, peer>>

UpdateConfigRoute(c, cred, body) ==
    LET req == [IdleCall EXCEPT !.op = "updateConfig", !.cred = cred,
                                !.params = [body |-> body]]
    IN  Route(c, req, updateConfig(req))

\* a DELETE / route without the adminOnly guard
DeleteConfigRouteNoAdmin(c, cred) ==
    LET req == [IdleCall EXCEPT !.op = "deleteConfig", !.cred = cred]
    IN  /\ calls[c].pc = "idle"
        /\ calls' = [calls EXCEPT ![c] =
              IF protect(cred) # NoError THEN Responds(req, protect(cred))
              ELSE deleteConfig(req)]
        /\ UNCHANGED <<configs, categories, nextId>>
        /\ UNCHANGED <<routeVars, peer>>

DeleteConfigRoute(c, cred) ==
    LET req == [IdleCall EXCEPT !.op = "deleteConfig", !.cred = cred]
    IN  Route(c, req, deleteConfig(req))

GetAllCategoriesRoute(c, cred) ==
    LET req == [IdleCall EXCEPT !.op = "getAllCategories", !.cred = cred]
    IN  Route(c, req, getAllCategories(req))

AddCategoryRoute(c, cred, body) ==
    LET req == [IdleCall EXCEPT !.op = "addCategory", !.cred = cred,
                                !.params = [body |-> body]]
    IN  Route(c, req, addCategory(req))

UpdateCategoryRoute(c, cred, id, body) ==
    LET req == [IdleCall EXCEPT !.op = "updateCategory", !.cred = cred,
                                !.params = [id |-> id, body |-> body]]
    IN  Route(c, req, updateCategory(req))

DeleteCategoryRoute(c, cred, id) ==
    LET req == [IdleCall EXCEPT !.op = "deleteCategory", !.cred = cred,
                                !.params = [id |-> id]]
    IN  Route(c, req, deleteCategory(req))

\* the response has been received: the slot takes the next request
CallEnds(c) ==
    /\ calls[c].pc = "done"
    /\ calls' = [calls EXCEPT ![c] = IdleCall]
    /\ UNCHANGED <<configs, categories, nextId>>
    /\ UNCHANGED <<routeVars, peer>>

(* --------------------------- configuration: requests ------------------- *)

\* "Flat"
Flat == Text(<<70, 108, 97, 116>>)

\* " Flat"
FlatPadded == Text(<<32, 70, 108, 97, 116>>)

\* "Ghost"
Ghost == Text(<<71, 104, 111, 115, 116>>)

\* "p"
KeyP == Text(<<112>>)

\* "p" after a byte order mark U+FEFF and before an ogham space U+1680
KeyPPadded == Text(<<65279, 112, 5760>>)

\* "g"
KeyG == Text(<<103>>)

\* "A"
LabelA == Text(<<65>>)

\* "B"
LabelB == Text(<<66>>)

\* " "
Blank == Text(<<32>>)

\* the sequences over S of length at most n
SeqsUpTo(S, n) == UNION {[1..k -> S] : k \in 0..n}

\* bodies of PUT / about billing: no active model, one that is the name of
\* the model of the list as it is, with a blank before it or with a byte
\* order mark U+FEFF after it, and one that is no name of the list, with no
\* list, an empty list, a list of one model and a list with a negative rate;
\* and an
\* active model that is not in the list together with categories that are
\* rejected (a duplicate key, a missing label) or with collection rules that
\* are rejected (null, a string as maxBinsPerCollection)
BillingBodies ==
    {body : body \in
        {[activeBillingModel |-> a, billingModels |-> b,
          wasteCategories |-> Undefined, collectionRules |-> Undefined] :
            a \in {Undefined, Flat, FlatPadded,
                   Text(<<70, 108, 97, 116, 65279>>), Ghost},
            b \in {Undefined, Arr(<<>>),
                   Arr(<<Obj([name |-> Flat, rate |-> Num(10)])>>),
                   Arr(<<Obj([name |-> Flat, rate |-> Num(0 - 1)])>>)}}
        \cup
        {[activeBillingModel |-> Ghost,
          billingModels |-> Arr(<<Obj([name |-> Flat, rate |-> Num(10)])>>),
          wasteCategories |-> c, collectionRules |-> Undefined] :
            c \in {Arr(<<Obj([key |-> KeyP, label |-> LabelA]),
                         Obj([key |-> KeyP, label |-> LabelA])>>),
                   Arr(<<Obj([key |-> KeyG, label |-> Undefined])>>)}}
        \cup
        {[activeBillingModel |-> Ghost,
          billingModels |-> Arr(<<Obj([name |-> Flat, rate |-> Num(10)])>>),
          wasteCategories |-> Undefined, collectionRules |-> r] :
            r \in {Null, Obj([maxBinsPerCollection |-> Text(<<120>>)])}}}

\* bodies of POST /categories: the key "k", keys that differ from it by
\* their case ("K", and the Kelvin sign U+212A, whose lower case is "k") or
\* by white space around it (a byte order mark U+FEFF before it, an ogham
\* space U+1680 and a tab after it), a key with a blank inside ("k g"), and
\* a body without a label or without a key
AddCategoryBodies ==
    {Obj([key |-> Text(<<107>>), label |-> LabelA]),
     Obj([key |-> Text(<<75>>), label |-> LabelA]),
     Obj([key |-> Text(<<8490>>), label |-> LabelA]),
     Obj([key |-> Text(<<65279, 107, 5760, 9>>), label |-> LabelA]),
     Obj([key |-> Text(<<107, 32, 103>>), label |-> LabelA]),
     Obj([key |-> Text(<<107>>), label |-> Undefined]),
     Obj([key |-> Undefined, label |-> LabelA])}

\* bodies of PUT /categories/:id: a label "B", a blank label, a label that
\* is an object with the _id "A", and isActive as a boolean, as the string
\* "true" and as the string "x"
UpdateCategoryBodies ==
    {Obj([label |-> LabelB]),
     Obj([label |-> Blank]),
     Obj([label |-> Obj([_id |-> LabelA])]),
     Obj([label |-> LabelA, isActive |-> Bool(FALSE)]),
     Obj([isActive |-> Text(<<116, 114, 117, 101>>)]),
     Obj([isActive |-> Text(<<120>>)])}

\* the :id of a request: 24 hex characters that name the n-th _id handed
\* out (0: an _id never handed out), or a string of another form
RequestIds ==
    {id : id \in {[hex24 |-> TRUE, n |-> k] : k \in 0..MaxIds}
                    \cup {[hex24 |-> FALSE, n |-> 0]}}

\* elements of billingModels, well-formed and malformed: a rate of 10, of 0
\* and of -1, a name that is absent, empty, blank or a number, a name that
\* is a byte order mark with the rate 0, a rate that is absent, null or the
\* string "10", and elements that are the string "x" or null
BillingElementInputs ==
    {Obj([name |-> Flat, rate |-> Num(10)]),
     Obj([name |-> FlatPadded, rate |-> Num(0)]),
     Obj([name |-> Flat, rate |-> Num(0 - 1)]),
     Obj([name |-> Undefined, rate |-> Num(10)]),
     Obj([name |-> Text(<<>>), rate |-> Num(10)]),
     Obj([name |-> Blank, rate |-> Num(10)]),
     Obj([name |-> Text(<<65279>>), rate |-> Num(0)]),
     Obj([name |-> Num(5), rate |-> Num(10)]),
     Obj([name |-> Flat, rate |-> Undefined]),
     Obj([name |-> Flat, rate |-> Null]),
     Obj([name |-> Flat, rate |-> Text(<<49, 48>>)]),
     Text(<<120>>),
     Null}

\* elements of wasteCategories, well-formed and malformed: a key with white
\* space around it, a key that is absent, blank, a line separator U+2028 or
\* a number, a label that is absent, blank or an ideographic space U+3000,
\* and an element that is null
CategoryElementInputs ==
    {Obj([key |-> KeyP, label |-> LabelA]),
     Obj([key |-> KeyPPadded, label |-> LabelA]),
     Obj([key |-> KeyG, label |-> LabelB]),
     Obj([key |-> Undefined, label |-> LabelA]),
     Obj([key |-> Blank, label |-> LabelA]),
     Obj([key |-> Text(<<8232>>), label |-> LabelA]),
     Obj([key |-> Num(5), label |-> LabelA]),
     Obj([key |-> KeyP, label |-> Undefined]),
     Obj([key |-> KeyP, label |-> Blank]),
     Obj([key |-> KeyP, label |-> Text(<<12288>>)]),
     Null}

\* the empty array, and the arrays of at most n elements whose last element
\* is any of S and whose other elements are well-formed
WellFormedThenAny(wellFormed, S, n) ==
    {<<>>} \cup {Append(w, x) : w \in SeqsUpTo(wellFormed, n - 1), x \in S}

\* values of billingModels and of wasteCategories that are not arrays
NotArrays == {Null, Text(<<120>>), Obj([name |-> Flat, rate |-> Num(10)])}

\* bodies of PUT / with billingModels alone, with wasteCategories alone (in
\* an array, every element before the last one is well-formed), and with a
\* malformed or well-formed single model together with a single category
ElementBodies ==
    {body : body \in
        {[activeBillingModel |-> Undefined, billingModels |-> b,
          wasteCategories |-> Undefined, collectionRules |-> Undefined] :
            b \in {Arr(x) : x \in WellFormedThenAny(
                                       {Obj([name |-> FlatPadded, rate |-> Num(0)])},
                                       BillingElementInputs, MaxModels)}
                     \cup NotArrays}
        \cup
        {[activeBillingModel |-> Undefined, billingModels |-> Undefined,
          wasteCategories |-> c, collectionRules |-> Undefined] :
            c \in {Arr(x) : x \in WellFormedThenAny(
                                       {Obj([key |-> KeyP, label |-> LabelA])},
                                       CategoryElementInputs, MaxCategories)}
                     \cup NotArrays}
        \cup
        {[activeBillingModel |-> Undefined, billingModels |-> Arr(<<b>>),
          wasteCategories |-> Arr(<<c>>), collectionRules |-> Undefined] :
            b \in {Obj([name |-> Flat, rate |-> Num(10)]),
                   Obj([name |-> Flat, rate |-> Num(0 - 1)])},
            c \in {Obj([key |-> KeyP, label |-> LabelA]),
                   Obj([key |-> KeyP, label |-> Undefined])}}}

(* ------------------------ configuration: specifications ---------------- *)

\* Every specification serves MaxCalls requests at a time: a request arrives
\* in any slot that is free, and the invocations in progress take their
\* steps in any order.

\* the configuration document and its billing fields: getConfig,
\* updateConfig and deleteConfig requests of an administrator
NextBilling ==
    \/ \E c \in 1..MaxCalls : GetConfigRoute(c, "ADMIN")
    \/ \E c \in 1..MaxCalls, body \in BillingBodies :
          UpdateConfigRoute(c, "ADMIN", body)
    \/ \E c \in 1..MaxCalls : DeleteConfigRoute(c, "ADMIN")
    \/ \E c \in 1..MaxCalls : getConfigFindOne(c)
    \/ \E c \in 1..MaxCalls : getConfigCreate(c)
    \/ \E c \in 1..MaxCalls : updateConfigFindOneAndUpdate(c)
    \/ \E c \in 1..MaxCalls : updateConfigNotify(c)
    \/ \E c \in 1..MaxCalls : deleteConfigDeleteMany(c)
    \/ \E c \in 1..MaxCalls : CallEnds(c)

SpecBilling == Init /\ [][NextBilling]_vars

\* the seven endpoints, with and without a token and with the roles USER
\* and ADMIN: an update of the active model, a category to add, and the _id
\* of the first category to update and to delete
NextConfig ==
    \/ \E c \in 1..MaxCalls, cred \in Creds : GetConfigRoute(c, cred)
    \/ \E c \in 1..MaxCalls, cred \in Creds :
          UpdateConfigRoute(c, cred,
              [activeBillingModel |-> Flat, billingModels |-> Undefined,
               wasteCategories |-> Undefined, collectionRules |-> Undefined])
    \/ \E c \in 1..MaxCalls, cred \in Creds : DeleteConfigRoute(c, cred)
    \/ \E c \in 1..MaxCalls, cred \in Creds : GetAllCategoriesRoute(c, cred)
    \/ \E c \in 1..MaxCalls, cred \in Creds :
          AddCategoryRoute(c, cred, Obj([key |-> KeyP, label |-> LabelA]))
    \/ \E c \in 1..MaxCalls, cred \in Creds :
          UpdateCategoryRoute(c, cred, [hex24 |-> TRUE, n |-> 1],
                              Obj([label |-> LabelB]))
    \/ \E c \in 1..MaxCalls, cred \in Creds :
          DeleteCategoryRoute(c, cred, [hex24 |-> TRUE, n |-> 1])
    \/ \E c \in 1..MaxCalls : getConfigFindOne(c)
    \/ \E c \in 1..MaxCalls : getConfigCreate(c)
    \/ \E c \in 1..MaxCalls : updateConfigFindOneAndUpdate(c)
    \/ \E c \in 1..MaxCalls : updateConfigNotify(c)
    \/ \E c \in 1..MaxCalls : deleteConfigDeleteMany(c)
    \/ \E c \in 1..MaxCalls : getAllCategoriesFind(c)
    \/ \E c \in 1..MaxCalls : addCategoryFindOne(c)
    \/ \E c \in 1..MaxCalls : addCategoryCreate(c)
    \/ \E c \in 1..MaxCalls : addCategoryFindConfig(c)
    \/ \E c \in 1..MaxCalls : addCategorySave(c)
    \/ \E c \in 1..MaxCalls : addCategoryNotify(c)
    \/ \E c \in 1..MaxCalls : updateCategoryFindByIdAndUpdate(c)
    \/ \E c \in 1..MaxCalls : updateCategoryFindConfig(c)
    \/ \E c \in 1..MaxCalls : updateCategorySave(c)
    \/ \E c \in 1..MaxCalls : updateCategoryNotify(c)
    \/ \E c \in 1..MaxCalls : deleteCategoryFindByIdAndDelete(c)
    \/ \E c \in 1..MaxCalls : deleteCategoryFindConfig(c)
    \/ \E c \in 1..MaxCalls : deleteCategorySave(c)
    \/ \E c \in 1..MaxCalls : deleteCategoryNotify(c)
    \/ \E c \in 1..MaxCalls : CallEnds(c)

SpecConfig == Init /\ [][NextConfig]_vars

\* updates with well-formed and malformed elements, by an administrator
NextElements ==
    \/ \E c \in 1..MaxCalls : GetConfigRoute(c, "ADMIN")
    \/ \E c \in 1..MaxCalls, body \in ElementBodies :
          UpdateConfigRoute(c, "ADMIN", body)
    \/ \E c \in 1..MaxCalls : DeleteConfigRoute(c, "ADMIN")
    \/ \E c \in 1..MaxCalls : getConfigFindOne(c)
    \/ \E c \in 1..MaxCalls : getConfigCreate(c)
    \/ \E c \in 1..MaxCalls : updateConfigFindOneAndUpdate(c)
    \/ \E c \in 1..MaxCalls : updateConfigNotify(c)
    \/ \E c \in 1..MaxCalls : deleteConfigDeleteMany(c)
    \/ \E c \in 1..MaxCalls : CallEnds(c)

SpecElements == Init /\ [][NextElements]_vars

\* bodies of PUT / sent while other requests are in progress: no field at
\* all, one field alone, a negative rate, an active model that is not in the
\* list, an active model that is an object with and without an _id that is
\* a string, and collection rules that are null
CallBodies ==
    {[activeBillingModel |-> a, billingModels |-> b,
      wasteCategories |-> c, collectionRules |-> r] :
        <<a, b, c, r>> \in
            {<<Undefined, Undefined, Undefined, Undefined>>,
             <<Flat, Undefined, Undefined, Undefined>>,
             <<Undefined, Undefined,
               Arr(<<Obj([key |-> KeyP, label |-> LabelA])>>), Undefined>>,
             <<Undefined, Undefined, Undefined,
               Obj([maxBinsPerCollection |-> Num(5)])>>,
             <<Undefined, Arr(<<Obj([name |-> Flat, rate |-> Num(0 - 1)])>>),
               Undefined, Undefined>>,
             <<Ghost, Arr(<<Obj([name |-> Flat, rate |-> Num(10)])>>),
               Undefined, Undefined>>,
             <<Obj([a |-> Num(1)]), Undefined, Undefined, Undefined>>,
             <<Obj([_id |-> Flat]), Undefined, Undefined, Undefined>>,
             <<Undefined, Undefined, Undefined, Null>>}}

\* getConfig, updateConfig and deleteConfig requests of an administrator
NextCalls ==
    \/ \E c \in 1..MaxCalls : GetConfigRoute(c, "ADMIN")
    \/ \E c \in 1..MaxCalls, body \in CallBodies :
          UpdateConfigRoute(c, "ADMIN", body)
    \/ \E c \in 1..MaxCalls : DeleteConfigRoute(c, "ADMIN")
    \/ \E c \in 1..MaxCalls : getConfigFindOne(c)
    \/ \E c \in 1..MaxCalls : getConfigCreate(c)
    \/ \E c \in 1..MaxCalls : updateConfigFindOneAndUpdate(c)
    \/ \E c \in 1..MaxCalls : updateConfigNotify(c)
    \/ \E c \in 1..MaxCalls : deleteConfigDeleteMany(c)
    \/ \E c \in 1..MaxCalls : CallEnds(c)

SpecCalls == Init /\ [][NextCalls]_vars

\* the categories: addCategory, updateCategory and deleteCategory together
\* with getConfig and deleteConfig, by an administrator
NextCategories ==
    \/ \E c \in 1..MaxCalls : GetConfigRoute(c, "ADMIN")
    \/ \E c \in 1..MaxCalls : DeleteConfigRoute(c, "ADMIN")
    \/ \E c \in 1..MaxCalls, body \in AddCategoryBodies :
          AddCategoryRoute(c, "ADMIN", body)
    \/ \E c \in 1..MaxCalls, id \in RequestIds, body \in UpdateCategoryBodies :
          UpdateCategoryRoute(c, "ADMIN", id, body)
    \/ \E c \in 1..MaxCalls, id \in RequestIds :
          DeleteCategoryRoute(c, "ADMIN", id)
    \/ \E c \in 1..MaxCalls : getConfigFindOne(c)
    \/ \E c \in 1..MaxCalls : getConfigCreate(c)
    \/ \E c \in 1..MaxCalls : deleteConfigDeleteMany(c)
    \/ \E c \in 1..MaxCalls : addCategoryFindOne(c)
    \/ \E c \in 1..MaxCalls : addCategoryCreate(c)
    \/ \E c \in 1..MaxCalls : addCategoryFindConfig(c)
    \/ \E c \in 1..MaxCalls : addCategorySave(c)
    \/ \E c \in 1..MaxCalls : addCategoryNotify(c)
    \/ \E c \in 1..MaxCalls : updateCategoryFindByIdAndUpdate(c)
    \/ \E c \in 1..MaxCalls : updateCategoryFindConfig(c)
    \/ \E c \in 1..MaxCalls : updateCategorySave(c)
    \/ \E c \in 1..MaxCalls : updateCategoryNotify(c)
    \/ \E c \in 1..MaxCalls : deleteCategoryFindByIdAndDelete(c)
    \/ \E c \in 1..MaxCalls : deleteCategoryFindConfig(c)
    \/ \E c \in 1..MaxCalls : deleteCategorySave(c)
    \/ \E c \in 1..MaxCalls : deleteCategoryNotify(c)
    \/ \E c \in 1..MaxCalls : CallEnds(c)

SpecCategories == Init /\ [][NextCategories]_vars

\* the list of categories of the configuration, written by updateConfig, by
\* addCategory and by updateCategory: an update that sets no field, one
\* that sets the list to two categories and one that empties it, a category
\* to add, and a new label for the first category
NextLists ==
    \/ \E c \in 1..MaxCalls, cats \in {Undefined, Arr(<<>>),
              Arr(<<Obj([key |-> KeyG, label |-> LabelA]),
                    Obj([key |-> KeyP, label |-> LabelA])>>)} :
          UpdateConfigRoute(c, "ADMIN",
              [activeBillingModel |-> Undefined, billingModels |-> Undefined,
               wasteCategories |-> cats, collectionRules |-> Undefined])
    \/ \E c \in 1..MaxCalls :
          AddCategoryRoute(c, "ADMIN", Obj([key |-> KeyP, label |-> LabelA]))
    \/ \E c \in 1..MaxCalls :
          UpdateCategoryRoute(c, "ADMIN", [hex24 |-> TRUE, n |-> 1],
                              Obj([label |-> LabelB]))
    \/ \E c \in 1..MaxCalls : updateConfigFindOneAndUpdate(c)
    \/ \E c \in 1..MaxCalls : updateConfigNotify(c)
    \/ \E c \in 1..MaxCalls : addCategoryFindOne(c)
    \/ \E c \in 1..MaxCalls : addCategoryCreate(c)
    \/ \E c \in 1..MaxCalls : addCategoryFindConfig(c)
    \/ \E c \in 1..MaxCalls : addCategorySave(c)
    \/ \E c \in 1..MaxCalls : addCategoryNotify(c)
    \/ \E c \in 1..MaxCalls : updateCategoryFindByIdAndUpdate(c)
    \/ \E c \in 1..MaxCalls : updateCategoryFindConfig(c)
    \/ \E c \in 1..MaxCalls : updateCategorySave(c)
    \/ \E c \in 1..MaxCalls : updateCategoryNotify(c)
    \/ \E c \in 1..MaxCalls : CallEnds(c)

SpecLists == Init /\ [][NextLists]_vars

(* ------------------------------ properties ---------------------------- *)

\* eligibility of a point: both coordinates present and finite real numbers
Eligible(bin) ==
    /\ bin.latitude.t \in {"number", "tiny"}
    /\ bin.longitude.t \in {"number", "tiny"}

\* a <= b and a == b on distances
JSLeq(a, b) == a.t # "NaN" /\ b.t # "NaN" /\ ~JSLess(b, a)
JSEq(a, b) == a.t # "NaN" /\ b.t # "NaN" /\ a = b

\* the handler has answered 200
Answered == pc = "done" /\ Len(res) = 1 /\ res[1].status = 200

\* number of positions of s that hold x
Count(s, x) == Cardinality({j \in 1..Len(s) : s[j] = x})

\* position of a bin in the filtered input order (binIds are unique)
InputIndex(bin) == CHOOSE k \in 1..Len(validBins) : validBins[k].binId = bin.binId

\* C1: once the construction has run, the route is a permutation of the
\* filtered input: same length, every input point exactly as often as in
\* the input (exactly once, the points being distinct).
C1_Permutation ==
    (pc = "done" /\ Len(validBins) > 0) =>
        /\ Len(optimizedRoute) = Len(validBins)
        /\ \A k \in 1..Len(validBins) :
              /\ Count(optimizedRoute, validBins[k]) = Count(validBins, validBins[k])
              /\ Count(optimizedRoute, validBins[k]) = 1

\* a finished route of three stops that is not in input order
C1_Witness ==
    /\ pc = "done"
    /\ Len(validBins) = 3
    /\ optimizedRoute[2] = validBins[3]
    /\ optimizedRoute[3] = validBins[2]

\* C2: in the finished route every stop is at a distance from its
\* predecessor that is <= the distance from that predecessor to every
\* later stop.
C2_GreedyStep ==
    (pc = "done" /\ Len(optimizedRoute) > 0) =>
        \A i \in 2..Len(optimizedRoute) :
            \A x \in i..Len(optimizedRoute) :
                JSLeq(calculateDistance(optimizedRoute[i - 1], optimizedRoute[i]),
                      calculateDistance(optimizedRoute[i - 1], optimizedRoute[x]))

\* the unvisited positions at minimal distance from the current last stop
NearestSet ==
    LET cur == optimizedRoute[Len(optimizedRoute)]
    IN  {j \in 1..Len(unvisitedBins) :
            \A k \in 1..Len(unvisitedBins) :
                JSLeq(calculateDistance(cur, unvisitedBins[j]),
                      calculateDistance(cur, unvisitedBins[k]))}

\* C3: at every selection step, the selected point is, among the unvisited
\* points at minimal distance from the current last stop, the one earliest
\* in the filtered input order.
C3_TieBreak ==
    [][(pc = "loop" /\ Len(optimizedRoute') = Len(optimizedRoute) + 1 /\ NearestSet # {}) =>
          LET sel == optimizedRoute'[Len(optimizedRoute')]
          IN  /\ \E j \in NearestSet : unvisitedBins[j] = sel
              /\ \A j \in NearestSet : InputIndex(sel) <= InputIndex(unvisitedBins[j])]_vars

\* the second or a later selection has just chosen between two points at
\* the same distance: the other one is still unvisited and comes later in
\* the input order
C3_Witness ==
    /\ pc = "loop"
    /\ Len(optimizedRoute) >= 3
    /\ LET cur == optimizedRoute[Len(optimizedRoute) - 1]
           sel == optimizedRoute[Len(optimizedRoute)]
       IN  \E j \in 1..Len(unvisitedBins) :
              /\ JSEq(calculateDistance(cur, unvisitedBins[j]), calculateDistance(cur, sel))
              /\ InputIndex(sel) < InputIndex(unvisitedBins[j])
              /\ \A k \in 1..Len(unvisitedBins) :
                    JSLeq(calculateDistance(cur, sel), calculateDistance(cur, unvisitedBins[k]))

\* C4: only eligible points pass the filter and become stops: every point
\* handed to the construction has finite latitude and longitude.
C4_OnlyEligibleRouted ==
    /\ \A k \in 1..Len(optimizedRoute) : Eligible(optimizedRoute[k])
    /\ \A k \in 1..Len(unvisitedBins) : Eligible(unvisitedBins[k])

\* position of the first fetched point that passes the coordinate filter
FirstPassing ==
    CHOOSE k \in 1..Len(bins) :
        /\ HasValidCoordinates(bins[k])
        /\ \A j \in 1..(k - 1) : ~HasValidCoordinates(bins[j])

\* C5: the first stop of a non-empty route is the first fetched point that
\* passes the coordinate filter, in the route and in the response.
C5_FirstStop ==
    /\ Len(optimizedRoute) > 0 => optimizedRoute[1] = bins[FirstPassing]
    /\ (Answered /\ Len(res[1].body.optimizedRoute) > 0) =>
          res[1].body.optimizedRoute[1].binId = bins[FirstPassing].binId

\* a finished route whose first stop is neither the first fetched point
\* nor followed in fetch order
C5_Witness ==
    /\ Answered
    /\ Len(optimizedRoute) = 2
    /\ Len(bins) = 3
    /\ optimizedRoute[1] = bins[2]
    /\ optimizedRoute[1].latitude # optimizedRoute[2].latitude

\* C6: when no fetched point is eligible, the answer is an empty stop list
\* with a message and the construction is not entered.
C6_NoEligibleShortCircuit ==
    (pc \in {"loop", "done"} /\ res # <<ErrorResponse>>
        /\ \A k \in 1..Len(bins) : ~Eligible(bins[k])) =>
        /\ pc = "done"
        /\ optimizedRoute = <<>>
        /\ res[1].status = 200
        /\ res[1].body.optimizedRoute = <<>>
        /\ "message" \in DOMAIN res[1].body

\* C7: the stop at 1-based position k of a formatted route has order k
\* (0-based index k - 1, order (k - 1) + 1) and is the k-th point of the
\* construction; the orders are exactly 1..n.
C7_OrderContract ==
    (Answered /\ Len(optimizedRoute) > 0) =>
        LET stops == res[1].body.optimizedRoute
        IN  /\ Len(stops) = Len(optimizedRoute)
            /\ \A k \in 1..Len(stops) :
                  stops[k].order = k /\ stops[k].binId = optimizedRoute[k].binId
            /\ {stops[k].order : k \in 1..Len(stops)} = 1..Len(optimizedRoute)

\* a formatted route of three stops
C7_Witness ==
    /\ Answered
    /\ Len(res[1].body.optimizedRoute) = 3
    /\ res[1].body.optimizedRoute[3].order = 3

\* C8: the stop at position k carries the id, location, category,
\* latitude, longitude and area id of the route point at position k.
C8_AttributesCarried ==
    Answered =>
        LET stops == res[1].body.optimizedRoute
        IN  \A k \in 1..Len(stops) :
              /\ stops[k].binId = optimizedRoute[k].binId
              /\ stops[k].location = optimizedRoute[k].location
              /\ stops[k].category = optimizedRoute[k].category
              /\ stops[k].latitude = optimizedRoute[k].latitude
              /\ stops[k].longitude = optimizedRoute[k].longitude
              /\ stops[k].areaId = optimizedRoute[k].areaId

\* a formatted route of two stops that differ in every attribute and are
\* not in fetch order
C8_Witness ==
    /\ Answered
    /\ Len(res[1].body.optimizedRoute) >= 2
    /\ LET s1 == res[1].body.optimizedRoute[1]
           s2 == res[1].body.optimizedRoute[2]
       IN  /\ s1.areaId # s2.areaId
           /\ s1.category # s2.category
           /\ s1.latitude # s2.latitude
           /\ s1.longitude # s2.longitude
           /\ s1.latitude # s1.longitude
           /\ s2.binId # bins[2].binId

\* the count and the echo of the filter of a 200 response
CountAndEcho(body) ==
    /\ "totalBins" \in DOMAIN body
    /\ body.totalBins = Len(body.optimizedRoute)
    /\ "areaId" \in DOMAIN body
    /\ body.areaId = (IF areaId = NoArea THEN "all" ELSE areaId)

\* C9 as stated: every 200 response carries the count of its stops and the
\* echo of the filter, zero-stop responses included.
C9_CountAndEchoAlways == Answered => CountAndEcho(res[1].body)

\* C9 as amended: every 200 response with at least one stop carries the
\* count of its stops and the echo of the filter ('all' without a filter);
\* a zero-stop response carries the empty list and a message only.
C9_CountAndEchoNonEmpty ==
    Answered =>
        IF Len(res[1].body.optimizedRoute) > 0
        THEN CountAndEcho(res[1].body)
        ELSE DOMAIN res[1].body = {"optimizedRoute", "message"}

\* an unfiltered request answered with two stops
C9_Witness ==
    /\ Answered
    /\ areaId = NoArea
    /\ Len(res[1].body.optimizedRoute) = 2
    /\ res[1].body.totalBins = 2

\* C10: the filter returns exactly the eligible fetched points, in their
\* fetch order.
C10_FilterExact ==
    pc \in {"loop", "done"} /\ Len(bins) > 0 => validBins = SelectSeq(bins, Eligible)

\* the second invocation has answered 200
PeerAnswered == peer.pc = "done" /\ Len(peer.res) = 1 /\ peer.res[1].status = 200

\* the square of the straight-line distance between the i-th and the j-th
\* of the points bs, whose coordinates are integers
SquaredDistance(bs, i, j) ==
    (bs[i].latitude.v - bs[j].latitude.v) * (bs[i].latitude.v - bs[j].latitude.v)
        + (bs[i].longitude.v - bs[j].longitude.v) * (bs[i].longitude.v - bs[j].longitude.v)

\* the orders of visit the input bs admits: every point once, the first
\* point first, and each next point the earliest in input order of the
\* points not yet visited that are nearest to the previous one
VisitOrders(bs) ==
    {p \in [1..Len(bs) -> 1..Len(bs)] :
        /\ \A i, j \in 1..Len(bs) : p[i] = p[j] => i = j
        /\ p[1] = 1
        /\ \A k \in 2..Len(bs) :
              \A l \in k..Len(bs) :
                  \/ SquaredDistance(bs, p[k - 1], p[k]) < SquaredDistance(bs, p[k - 1], p[l])
                  \/ /\ SquaredDistance(bs, p[k - 1], p[k]) = SquaredDistance(bs, p[k - 1], p[l])
                     /\ p[k] <= p[l]}

\* C11: the stop sequence is a function of the input sequence alone. The
\* fetched points, in their order and with their coordinates, admit exactly
\* one order of visit, and the stops of the response follow it whatever the
\* filter of the request and whatever another invocation did before or
\* meanwhile; hence two runs on the same input, one run step by step and
\* one run at once, answer with identical stop sequences.
C11_Determinism ==
    (Answered /\ Len(bins) > 0) =>
        /\ Cardinality(VisitOrders(bins)) = 1
        /\ \A p \in VisitOrders(bins) :
              /\ Len(res[1].body.optimizedRoute) = Len(bins)
              /\ \A k \in 1..Len(bins) :
                    /\ res[1].body.optimizedRoute[k].binId = bins[p[k]].binId
                    /\ res[1].body.optimizedRoute[k].latitude = bins[p[k]].latitude
                    /\ res[1].body.optimizedRoute[k].longitude = bins[p[k]].longitude
        /\ (PeerAnswered /\ peer.bins = bins) =>
              /\ Len(peer.res[1].body.optimizedRoute) = Len(res[1].body.optimizedRoute)
              /\ \A k \in 1..Len(bins) :
                    peer.res[1].body.optimizedRoute[k].binId
                        = res[1].body.optimizedRoute[k].binId

\* both invocations have answered for the same three points, of which the
\* second and the third are different points equally near to the first, and
\* the second stop is the earlier of the two
C11_Witness ==
    /\ Answered
    /\ PeerAnswered
    /\ peer.areaId = areaId
    /\ peer.bins = bins
    /\ Len(bins) = 3
    /\ bins[1].latitude = Num(0) /\ bins[1].longitude = Num(0)
    /\ bins[2].latitude = Num(0) /\ bins[2].longitude = Num(1)
    /\ bins[3].latitude = Num(1) /\ bins[3].longitude = Num(0)
    /\ res[1].body.optimizedRoute[2].binId = bins[2].binId

\* C12: whatever the other invocation does, an invocation answers as it
\* would alone on the points it fetched, and while it is in its loop the
\* route and the unvisited list it holds still lead to that answer.
C12_Independent ==
    /\ Answered => res[1] = Respond(areaId, bins)
    /\ pc = "loop" =>
          FormatRoute(BuildTour(optimizedRoute, unvisitedBins))
              = Respond(areaId, bins).body.optimizedRoute
    /\ PeerAnswered => peer.res[1] = Respond(peer.areaId, peer.bins)

\* one invocation has answered with three stops while the other, with a
\* different filter, is suspended at its fetch
C12_Witness ==
    /\ Answered
    /\ Len(res[1].body.optimizedRoute) = 3
    /\ peer.pc = "await"
    /\ peer.areaId # areaId

\* C13: from the fetch to the response the fetched sequence does not
\* change, and during the construction the filtered sequence does not
\* change either: removals touch the unvisited copy only.
C13_InputUnchanged ==
    [][(pc \in {"fetched", "loop"}) =>
          /\ bins' = bins
          /\ pc = "loop" => validBins' = validBins]_vars

\* the construction has emptied its unvisited list and the three fetched
\* points are still there
C13_Witness ==
    /\ Answered
    /\ Len(optimizedRoute) = 3
    /\ unvisitedBins = <<>>
    /\ Len(bins) = 3
    /\ validBins = bins

\* the distance is 0
IsZero(d) == d.t = "sqrt" /\ d.v = 0

\* C14: between any two eligible points the distance is defined (not NaN),
\* non-negative, symmetric, and zero exactly when the two points have the
\* same latitude and the same longitude.
C14_Metric ==
    \A i, j \in 1..Len(validBins) :
        (Eligible(validBins[i]) /\ Eligible(validBins[j])) =>
            LET d == calculateDistance(validBins[i], validBins[j])
            IN  /\ d.t \in {"sqrt", "tinysqrt"}
                /\ d.v >= 0
                /\ d = calculateDistance(validBins[j], validBins[i])
                /\ IsZero(d) <=>
                      /\ validBins[i].latitude = validBins[j].latitude
                      /\ validBins[i].longitude = validBins[j].longitude

\* C15: every selection removes exactly one point from the unvisited list
\* and adds one stop; route and unvisited list together always hold n
\* points; the loop ends, after n - 1 selections the route holds n stops,
\* and exactly one response, a 200, has been sent.
C15_Terminates ==
    /\ [][(pc = "loop" /\ optimizedRoute' # optimizedRoute) =>
            /\ Len(unvisitedBins') = Len(unvisitedBins) - 1
            /\ Len(optimizedRoute') = Len(optimizedRoute) + 1]_vars
    /\ [](pc = "loop" => Len(optimizedRoute) + Len(unvisitedBins) = Len(validBins))
    /\ [](pc = "loop" => res = <<>>)
    /\ (pc = "loop") ~> (Answered /\ Len(optimizedRoute) = Len(validBins))

\* a response after three selections
C15_Witness ==
    /\ Answered
    /\ Len(validBins) = 4
    /\ Len(optimizedRoute) = 4
    /\ Len(res) = 1

\* a request to that endpoint arrives in slot c in this step
Arrives(c, endpoint) == calls[c].pc = "idle" /\ calls'[c].op = endpoint

\* a request to that endpoint sent with an ADMIN token arrives in slot c
Serves(c, endpoint) == Arrives(c, endpoint) /\ calls'[c].cred = "ADMIN"

\* the invocation of that handler in slot c, suspended at that await, takes
\* its next step
Resumes(c, op, at) == At(c, op, at) /\ calls'[c].pc # at

\* the invocation of that handler in slot c sends its response in this step
Answers(c, op) ==
    /\ calls[c].pc # "done"
    /\ calls'[c].pc = "done"
    /\ calls'[c].op = op
    /\ calls'[c].cred = "ADMIN"

\* the step writes nothing to the stores, and the invocation in slot c has
\* notified nothing
NoEffect(c) ==
    /\ calls'[c].notices = <<>>
    /\ UNCHANGED <<configs, categories, nextId>>

\* C16: a request to any configuration endpoint without a token is answered
\* 401 and one with a role other than ADMIN 403, in the step in which it
\* arrives: no store operation is awaited, no document is changed, nothing
\* is notified and the answer has no content of the stores.
C16_Guarded ==
    [][\A c \in 1..MaxCalls :
          (calls[c].pc = "idle" /\ calls'[c].pc # "idle"
              /\ calls'[c].cred # "ADMIN") =>
                /\ calls'[c].pc = "done"
                /\ Len(calls'[c].reply) = 1
                /\ calls'[c].reply[1].status
                      = IF calls'[c].cred = "none" THEN 401 ELSE 403
                /\ "body" \notin DOMAIN calls'[c].reply[1]
                /\ NoEffect(c)]_vars

\* a USER has asked to delete a category that exists, with a configuration
\* that lists it, and has been answered 403
C16_Witness ==
    \E c \in 1..MaxCalls :
        /\ calls[c].op = "deleteCategory"
        /\ calls[c].cred = "USER"
        /\ calls[c].reply = <<adminOnly("USER")>>
        /\ Len(categories) > 0
        /\ calls[c].params.id.n = categories[1].id
        /\ Len(configs) = 1
        /\ Len(configs[1].wasteCategories) > 0

\* C17: getConfig is find-or-create.  When its findOne resolves with a
\* stored document it answers 200 with that document and stores nothing;
\* when it resolves with none it calls create, which stores a new document
\* with the default values (no billing model, no category, no active model,
\* the default collection rules) and answers 200 with it.  deleteConfig
\* answers 204 and leaves no document, so that the findOne of a getConfig
\* that follows it finds none and a default document is created.
C17_FindOrCreate ==
    [][\A c \in 1..MaxCalls :
          /\ Resumes(c, "getConfig", "findOne") =>
                /\ configs' = configs
                /\ IF configs # <<>>
                   THEN calls'[c].reply = <<[status |-> 200, body |-> configs[1]]>>
                   ELSE calls'[c].pc = "create" /\ calls'[c].reply = <<>>
          /\ Resumes(c, "getConfig", "create") =>
                /\ configs' = Append(configs, DefaultConfig)
                /\ calls'[c].reply = <<[status |-> 200, body |-> DefaultConfig]>>
                /\ DefaultConfig.billingModels = <<>>
                /\ DefaultConfig.wasteCategories = <<>>
                /\ DefaultConfig.activeBillingModel = Text(<<>>)
          /\ Answers(c, "getConfig") =>
                \E d \in 1..Len(configs') : calls'[c].reply[1].body = configs'[d]
          /\ Answers(c, "deleteConfig") =>
                /\ calls'[c].reply[1].status = 204
                /\ configs' = <<>>]_vars

\* a document with an active model was stored and deleted, and a getConfig
\* that began while the deleteConfig was in progress has created the default
\* document and answered with it
C17_Witness ==
    \E c, d \in 1..MaxCalls :
        /\ calls[c].op = "getConfig"
        /\ calls[c].reply = <<[status |-> 200, body |-> DefaultConfig]>>
        /\ calls[d].op = "deleteConfig"
        /\ calls[d].pc = "done"
        /\ configs = <<DefaultConfig>>

\* C18: the activeBillingModel of every stored document is empty or is the
\* name of one of its billingModels.
C18_ActiveInList ==
    \A d \in 1..Len(configs) :
        \/ configs[d].activeBillingModel = Text(<<>>)
        \/ \E i \in 1..Len(configs[d].billingModels) :
               configs[d].billingModels[i].name = configs[d].activeBillingModel

\* the request names an active model that, after trimming, is the name of
\* no model of its non-empty billingModels array
Mismatch(body) ==
    /\ Truthy(body.activeBillingModel)
    /\ body.billingModels.t = "array"
    /\ Len(body.billingModels.v) > 0
    /\ \A i \in 1..Len(body.billingModels.v) :
          trim(StringOrEmpty(Field(body.billingModels.v[i], "name")))
              # trim(JSString(body.activeBillingModel))

\* C19 as stated: every updateConfig request with such a mismatch is
\* answered 422 and writes nothing.
C19_Rejects422 ==
    [][\A c \in 1..MaxCalls :
          (Serves(c, "updateConfig") /\ Mismatch(calls'[c].params.body)) =>
              /\ calls'[c].pc = "done"
              /\ calls'[c].reply[1].status = 422
              /\ UNCHANGED <<configs, categories>>]_vars

\* C19: every updateConfig request with such a mismatch is rejected in the
\* step in which it arrives and writes nothing; it is answered 422 by the
\* active-model check when its billingModels, wasteCategories and
\* collectionRules pass their own validation, and otherwise with the error
\* of the first of these that fails: 400, 422 for a duplicate key, or, for
\* collectionRules that is null, the TypeError of reading a property of
\* null, which is answered neither 400 nor 422.
C19_RejectsMismatch ==
    [][\A c \in 1..MaxCalls :
          (Serves(c, "updateConfig") /\ Mismatch(calls'[c].params.body)) =>
              LET body == calls'[c].params.body
                  earlier == FirstError(<<BillingModelsError(body),
                                         WasteCategoriesError(body),
                                         CollectionRulesError(body)>>)
              IN  /\ calls'[c].pc = "done"
                  /\ (body.collectionRules = Null
                        /\ BillingModelsError(body) = NoError
                        /\ WasteCategoriesError(body) = NoError) =>
                        calls'[c].reply[1].status \notin {400, 422}
                  /\ IF earlier = NoError
                     THEN calls'[c].reply = <<httpError(422,
                              "Active billing model must exist in billing models list")>>
                     ELSE calls'[c].reply = <<earlier>>
                  /\ NoEffect(c)]_vars

\* a request with a mismatch and nothing else wrong has been answered 422
\* while a document with an active model is stored
C19_Witness ==
    \E c \in 1..MaxCalls :
        /\ calls[c].op = "updateConfig"
        /\ calls[c].cred = "ADMIN"
        /\ calls[c].pc = "done"
        /\ Mismatch(calls[c].params.body)
        /\ calls[c].reply[1].status = 422
        /\ calls[c].params.body.wasteCategories = Undefined
        /\ calls[c].params.body.collectionRules = Undefined
        /\ Len(configs) = 1
        /\ configs[1].activeBillingModel = Flat

\* C20: no two entries of the wasteCategories of a stored document have the
\* same key.
C20_NoDuplicateKeys ==
    \A d \in 1..Len(configs) :
        \A i, j \in 1..Len(configs[d].wasteCategories) :
            (/\ i # j
             /\ configs[d].wasteCategories[i] # Null
             /\ configs[d].wasteCategories[j] # Null
             /\ configs[d].wasteCategories[i].key # Undefined) =>
                configs[d].wasteCategories[i].key
                    # configs[d].wasteCategories[j].key

\* the wasteCategories of the request is an array with two entries whose
\* keys are strings that are equal after trimming
SameKeyTwice(body) ==
    /\ body.wasteCategories.t = "array"
    /\ \E i, j \in 1..Len(body.wasteCategories.v) :
          /\ i # j
          /\ typeof(Field(body.wasteCategories.v[i], "key")) = "string"
          /\ typeof(Field(body.wasteCategories.v[j], "key")) = "string"
          /\ trim(Field(body.wasteCategories.v[i], "key"))
                = trim(Field(body.wasteCategories.v[j], "key"))

\* C21 as stated: every updateConfig request whose wasteCategories holds the
\* same key twice (after trimming) is answered 422 and writes nothing.
C21_Rejects422 ==
    [][\A c \in 1..MaxCalls :
          (Serves(c, "updateConfig") /\ SameKeyTwice(calls'[c].params.body)) =>
              /\ calls'[c].pc = "done"
              /\ calls'[c].reply[1].status = 422
              /\ UNCHANGED <<configs, categories>>]_vars

\* C21: every updateConfig request whose wasteCategories holds the same key
\* twice (after trimming) is rejected in the step in which it arrives and
\* writes nothing; it is answered 422 by the duplicate search when its
\* billingModels and every one of its categories are well-formed, and
\* otherwise 400 by the first check that fails.
C21_RejectsDuplicate ==
    [][\A c \in 1..MaxCalls :
          (Serves(c, "updateConfig") /\ SameKeyTwice(calls'[c].params.body)) =>
              LET body == calls'[c].params.body
                  malformed ==
                      FirstError(<<BillingModelsError(body)>>
                          \o [i \in 1..Len(body.wasteCategories.v) |->
                                 CategoryError(body.wasteCategories.v[i])])
              IN  /\ calls'[c].pc = "done"
                  /\ IF malformed = NoError
                     THEN calls'[c].reply
                             = <<httpError(422, "Duplicate waste category key")>>
                     ELSE calls'[c].reply = <<malformed>> /\ malformed.status = 400
                  /\ NoEffect(c)]_vars

\* a request with two keys that differ only by the white space around them
\* (a byte order mark U+FEFF and an ogham space U+1680) has been answered
\* 422 while a document with categories is stored
C21_Witness ==
    \E c \in 1..MaxCalls :
        /\ calls[c].op = "updateConfig"
        /\ calls[c].cred = "ADMIN"
        /\ calls[c].pc = "done"
        /\ SameKeyTwice(calls[c].params.body)
        /\ calls[c].params.body.wasteCategories.v[1].v.key = KeyP
        /\ calls[c].params.body.wasteCategories.v[2].v.key = KeyPPadded
        /\ calls[c].reply[1].status = 422
        /\ Len(configs) = 1
        /\ Len(configs[1].wasteCategories) > 0

\* the modules named in a notification result
Notified(result) == {result.notifications[k] : k \in 1..Len(result.notifications)}

\* C22: every updateConfig answered 200 returns a notification result with
\* success = true that names Billing, Reporting and Waste Tracking, whatever
\* fields the body had, and the result is the one notifyDependentModules has
\* produced from the document the write has returned.
C22_NotifiesAll ==
    \A c \in 1..MaxCalls :
        (calls[c].op = "updateConfig" /\ calls[c].pc = "done"
            /\ calls[c].reply[1].status = 200) =>
            /\ calls[c].reply[1].body.notifications.success
            /\ Notified(calls[c].reply[1].body.notifications)
                  = {"Billing", "Reporting", "Waste Tracking"}
            /\ calls[c].notices = <<calls[c].reply[1].body.notifications>>
            /\ calls[c].notices
                  = <<notifyDependentModules(calls[c].reply[1].body.config,
                                             "settings_updated")>>

\* x is a string with at least one character
NonEmptyString(x) == x.t = "string" /\ x.v # <<>>

\* a billing model without a non-empty string name, without a rate, with a
\* rate that is not a number or with a negative rate
MalformedModel(m) ==
    \/ ~NonEmptyString(Field(m, "name"))
    \/ Field(m, "rate").t \in {"undefined", "null"}
    \/ Field(m, "rate").t # "number"
    \/ Field(m, "rate").v < 0

\* a waste category without a non-empty string key or label
MalformedCategory(c) ==
    \/ ~NonEmptyString(Field(c, "key"))
    \/ ~NonEmptyString(Field(c, "label"))

\* the field is present and is not an array
NotAnArray(x) == x.t \notin {"undefined", "array"}

\* the body has a malformed element, or a list that is not an array
MalformedBody(body) ==
    \/ NotAnArray(body.billingModels)
    \/ NotAnArray(body.wasteCategories)
    \/ /\ body.billingModels.t = "array"
       /\ \E i \in 1..Len(body.billingModels.v) :
             MalformedModel(body.billingModels.v[i])
    \/ /\ body.wasteCategories.t = "array"
       /\ \E i \in 1..Len(body.wasteCategories.v) :
             MalformedCategory(body.wasteCategories.v[i])

\* the body has billingModels only, every model has a name with a character
\* other than a blank and a rate that is a number >= 0, and model i has the
\* rate 0
RateZeroAt(body, i) ==
    /\ body.billingModels.t = "array"
    /\ body.wasteCategories = Undefined
    /\ body.collectionRules = Undefined
    /\ body.activeBillingModel = Undefined
    /\ i \in 1..Len(body.billingModels.v)
    /\ \A k \in 1..Len(body.billingModels.v) :
          /\ ~MalformedModel(body.billingModels.v[k])
          /\ trim(body.billingModels.v[k].v.name).v # <<>>
    /\ body.billingModels.v[i].v.rate = Num(0)

\* C23: updateConfig answers 400 in the step in which the request arrives,
\* and writes nothing, whenever billingModels or wasteCategories is not an
\* array or has a malformed element; a model with the rate 0 is accepted:
\* the request reaches its write, which stores the rate 0, and is answered
\* 200.
C23_Malformed400 ==
    [][\A c \in 1..MaxCalls :
          /\ (Serves(c, "updateConfig") /\ MalformedBody(calls'[c].params.body)) =>
                /\ calls'[c].pc = "done"
                /\ calls'[c].reply[1].status = 400
                /\ NoEffect(c)
          /\ \A i \in 1..MaxModels + 1 :
                /\ (Serves(c, "updateConfig") /\ RateZeroAt(calls'[c].params.body, i)) =>
                      calls'[c].pc = "findOneAndUpdate"
                /\ (Resumes(c, "updateConfig", "findOneAndUpdate")
                        /\ RateZeroAt(calls[c].params.body, i)) =>
                      /\ calls'[c].pc = "notify"
                      /\ configs'[1].billingModels[i].rate = Num(0)
                /\ (Resumes(c, "updateConfig", "notify")
                        /\ RateZeroAt(calls[c].params.body, i)) =>
                      /\ calls'[c].pc = "done"
                      /\ calls'[c].reply[1].status = 200
                      /\ calls'[c].reply[1].body.config.billingModels[i].rate = Num(0)]_vars

\* a list whose second model has no rate has been answered 400 while the
\* stored document holds a model with the rate 0
C23_Witness ==
    \E c \in 1..MaxCalls :
        /\ calls[c].op = "updateConfig"
        /\ calls[c].cred = "ADMIN"
        /\ calls[c].params.body.billingModels.t = "array"
        /\ Len(calls[c].params.body.billingModels.v) = 2
        /\ ~MalformedModel(calls[c].params.body.billingModels.v[1])
        /\ Field(calls[c].params.body.billingModels.v[2], "rate") = Undefined
        /\ calls[c].reply = <<httpError(400, "Billing model rate is required")>>
        /\ Len(configs) = 1
        /\ \E i \in 1..Len(configs[1].billingModels) :
              configs[1].billingModels[i].rate = Num(0)

\* a category with that key, written as the store keeps a key (without the
\* white space around it and in lowercase letters), is stored
KeyStored(key) ==
    \E i \in 1..Len(categories) : categories[i].key = toLowerCase(trim(key))

\* C24: addCategory without a key or without a label is answered 400 in the
\* step in which the request arrives, and addCategory with the key of a
\* category that is stored when the handler looks for it is answered 422; in
\* both cases no category is created, the SystemConfig is unchanged and
\* nothing is notified.
C24_AddRejected ==
    [][\A c \in 1..MaxCalls :
          /\ (Serves(c, "addCategory")
                /\ \/ Field(calls'[c].params.body, "key") = Undefined
                   \/ Field(calls'[c].params.body, "label") = Undefined) =>
                /\ calls'[c].pc = "done"
                /\ calls'[c].reply[1].status = 400
                /\ NoEffect(c)
          /\ (Resumes(c, "addCategory", "findOne")
                /\ KeyStored(Field(calls[c].params.body, "key"))) =>
                /\ calls'[c].pc = "done"
                /\ calls'[c].reply[1].status = 422
                /\ NoEffect(c)]_vars

\* a request whose key is the Kelvin sign U+212A has been answered 422 while
\* the category "k" is stored, with a configuration that lists the category
\* once, while another request to add a category is in progress
C24_Witness ==
    \E c, d \in 1..MaxCalls :
        /\ calls[c].op = "addCategory"
        /\ calls[c].pc = "done"
        /\ calls[c].reply[1].status = 422
        /\ calls[c].params.body.v.key = Text(<<8490>>)
        /\ KeyStored(calls[c].params.body.v.key)
        /\ \E i \in 1..Len(categories) : categories[i].key = Text(<<107>>)
        /\ Len(configs) = 1
        /\ Len(configs[1].wasteCategories) = 1
        /\ configs[1].wasteCategories[1].key = Text(<<107>>)
        /\ calls[d].op = "addCategory"
        /\ calls[d].pc \notin {"idle", "done"}

\* the document the next getConfig answers with, given the stored documents
NextGetConfig(docs) == IF docs = <<>> THEN DefaultConfig ELSE docs[1]

\* the keys of the wasteCategories of a document
ConfigKeys(doc) == {doc.wasteCategories[i].key : i \in 1..Len(doc.wasteCategories)}

\* C25: after every addCategory answered 201 the document the next getConfig
\* returns lists the key of the new category, and after every deleteCategory
\* answered 200 it lists no entry with the key of the deleted category.
C25_Reflected ==
    [][\A c \in 1..MaxCalls :
          /\ (Answers(c, "addCategory") /\ calls'[c].reply[1].status = 201) =>
                calls'[c].reply[1].body.category.key
                    \in ConfigKeys(NextGetConfig(configs'))
          /\ (Answers(c, "deleteCategory") /\ calls'[c].reply[1].status = 200) =>
                calls[c].category[1].key
                    \notin ConfigKeys(NextGetConfig(configs'))]_vars

\* no stored category has the _id the request names
NoSuchCategory(id) == \A i \in 1..Len(categories) : categories[i].id # id.n

\* the update { label, description, isActive } of the body is rejected by
\* the schema: a value cannot be cast, or the label is blank
RejectedBySchema(body) ==
    \/ CastTrimmed(Field(body, "label")) = CastError
    \/ CastTrimmed(Field(body, "description")) = CastError
    \/ CastBoolean(Field(body, "isActive")) = CastError
    \/ /\ Field(body, "label") # Undefined
       /\ Missing(CastTrimmed(Field(body, "label")))

C27_AtMostOne == Len(configs) <= 1

Items(seq) == {seq[k] : k \in 1..Len(seq)}

\* position of a bin in the fetched collection (binIds are unique)
FetchIndex(bin) == CHOOSE k \in 1..Len(bins) : bins[k].binId = bin.binId

\* C29: while the construction is in its loop, before and after every
\* selection, the route and the unvisited list have no point in common,
\* together they hold exactly the eligible fetched points, their lengths sum
\* to the number n of those points, and the unvisited points are in the
\* order in which they were fetched.
C29_LoopInvariant ==
    pc = "loop" =>
        /\ Items(optimizedRoute) \cap Items(unvisitedBins) = {}
        /\ Items(optimizedRoute) \cup Items(unvisitedBins)
              = {bins[k] : k \in {j \in 1..Len(bins) : Eligible(bins[j])}}
        /\ Len(optimizedRoute) + Len(unvisitedBins) = Len(SelectSeq(bins, Eligible))
        /\ \A i, j \in 1..Len(unvisitedBins) :
              i < j => FetchIndex(unvisitedBins[i]) < FetchIndex(unvisitedBins[j])

\* the response of the catch block: 500, the message, and no route
IsError(response) ==
    /\ response.status = 500
    /\ response.body.message = "Error optimizing routes"
    /\ "optimizedRoute" \notin DOMAIN response.body

\* a 200 response: its route is the formatted one, every stop with its order
IsSuccess(response) ==
    /\ response.status = 200
    /\ "optimizedRoute" \in DOMAIN response.body
    /\ \/ response.body.optimizedRoute = <<>>
       \/ /\ response.body.optimizedRoute = FormatRoute(optimizedRoute)
          /\ Len(optimizedRoute) = Len(validBins)

\* C30: a failure inside optimizeRoutes (no body, or a fetch that rejects)
\* ends the handler with exactly one response, 500 'Error optimizing
\* routes', without a route; every handler that has ended has sent exactly
\* one response, an error or a success with the complete formatted route,
\* none is sent before the end, and a response once sent is neither
\* replaced nor followed by another one for the same request.
C30_OneResponse ==
    /\ [](Len(res) <= 1)
    /\ [](pc = "done" <=> Len(res) = 1)
    /\ [](Len(res) = 1 => (IsError(res[1]) \/ IsSuccess(res[1])))
    /\ [][((pc = "await" /\ pc' = "done") \/ (pc \in {"idle", "done"} /\ pc' = "done")) =>
            (Len(res') = 1 /\ IsError(res'[1]))]_vars
    /\ [][(Len(res) = 1 /\ res' # res) => (pc = "done" /\ pc' \in {"await", "done"})]_vars

\* the fetch of a request with an area filter has rejected and the handler
\* has answered 500
C30_Witness ==
    /\ pc = "done"
    /\ areaId \in AreaIds
    /\ bins = <<>>
    /\ Len(res) = 1
    /\ res[1].status = 500

====
